---------------------------- MODULE Spec2Model ----------------------------
(***************************************************************************)
(* A model of the ray tracer: the bounding volume hierarchy (bvh.rs), the  *)
(* hit tests of its geometry (sphere.rs, medium.rs, aabb.rs, hittable.rs), *)
(* the integrator ray_color and the row-parallel sampler (run.rs).         *)
(*                                                                         *)
(* Numbers.  f64 values are modelled as integers in thousandths (Unit is   *)
(* 1.0, so the literal 0.001 of the code is 1).  Inf, -Inf and NaN are the *)
(* IEEE values the slab test of Aabb::hit produces when a ray direction    *)
(* has a zero component.  Ray directions are axis-aligned unit vectors     *)
(* and sphere radii are Unit, which keeps every square root exact.         *)
(***************************************************************************)
EXTENDS Integers, Sequences, FiniteSets, TLC

VARIABLES input, objects, stack, nodes, bpc, query,
          rc, smp, px, drv, conf

vars == <<input, objects, stack, nodes, bpc, query, rc, smp, px, drv, conf>>

bvhVars == <<input, objects, stack, nodes, bpc, query>>

---------------------------------------------------------------------------
(* f64 arithmetic *)

Unit == 1000

Inf == 1000000000

NaN == Inf + Inf + 1

IsNaN(a) == a = NaN

IsInf(a) == a = Inf \/ a = -Inf

Sign(a) == IF a > 0 THEN 1 ELSE IF a < 0 THEN -1 ELSE 0

\* a * b of f64, one factor a plain count (a direction component or its inverse)
FMul(a, b) ==
    IF IsNaN(a) \/ IsNaN(b) THEN NaN
    ELSE IF IsInf(a) \/ IsInf(b)
         THEN IF a = 0 \/ b = 0 THEN NaN ELSE Sign(a) * Sign(b) * Inf
         ELSE a * b

\* a + b of f64
FAdd(a, b) ==
    IF IsNaN(a) \/ IsNaN(b) THEN NaN
    ELSE IF IsInf(a) /\ IsInf(b) THEN (IF a = b THEN a ELSE NaN)
    ELSE IF IsInf(a) THEN a
    ELSE IF IsInf(b) THEN b
    ELSE a + b

\* 1.0 / d with the division by zero guarded to give 0
FInv_ZeroGuard(d) == d

\* 1.0 / d for a direction component d in {-1, 0, 1}
FInv(d) == IF d = 0 THEN Inf ELSE d

\* f64::max and f64::min return the other operand when one is NaN
FMax(a, b) == IF IsNaN(a) THEN b ELSE IF IsNaN(b) THEN a ELSE IF a >= b THEN a ELSE b

FMin(a, b) == IF IsNaN(a) THEN b ELSE IF IsNaN(b) THEN a ELSE IF a <= b THEN a ELSE b

\* comparisons of f64 are false when an operand is NaN
FLt(a, b) == ~IsNaN(a) /\ ~IsNaN(b) /\ a < b

FLe(a, b) == ~IsNaN(a) /\ ~IsNaN(b) /\ a <= b

RECURSIVE SqrtSearch(_, _, _)
SqrtSearch(n, lo, hi) ==
    IF lo >= hi THEN lo
    ELSE LET mid == (lo + hi + 1) \div 2
         IN  IF mid * mid <= n THEN SqrtSearch(n, mid, hi)
             ELSE SqrtSearch(n, lo, mid - 1)

\* f64::sqrt of a value in thousandths squared
Sqrt(n) == SqrtSearch(n, 0, 40 * Unit)

---------------------------------------------------------------------------
(* cvec.rs: vectors *)

Vec(x, y, z) == <<x, y, z>>

Zeros == <<0, 0, 0>>

VAdd(a, b) == <<a[1] + b[1], a[2] + b[2], a[3] + b[3]>>

VSub(a, b) == <<a[1] - b[1], a[2] - b[2], a[3] - b[3]>>

VNeg(a) == <<-a[1], -a[2], -a[3]>>

VScale(t, a) == <<t * a[1], t * a[2], t * a[3]>>

VDiv(a, d) == <<a[1] \div d, a[2] \div d, a[3] \div d>>

Dot(a, b) == a[1] * b[1] + a[2] * b[2] + a[3] * b[3]

LengthSquared(a) == Dot(a, a)

Axis(i) == [k \in 1..3 |-> IF k = i THEN 1 ELSE 0]

---------------------------------------------------------------------------
(* ray.rs *)

Ray(orig, dir, tm) == [orig |-> orig, dir |-> dir, tm |-> tm]

RayAt(r, t) == VAdd(r.orig, VScale(t, r.dir))

---------------------------------------------------------------------------
(* hittable.rs: HitRecord *)

DefaultRec ==
    [t |-> 0, p |-> Zeros, normal |-> Zeros, mat |-> 0,
     front_face |-> FALSE, u |-> 0, v |-> 0]

\* HitRecord::set_face_normal
set_face_normal(rec, r, outward_normal) ==
    LET ff == Dot(r.dir, outward_normal) < 0
    IN  [rec EXCEPT !.front_face = ff,
                    !.normal = IF ff THEN outward_normal ELSE VNeg(outward_normal)]

\* the result of a hit test written through `rec: &mut HitRecord`; obj names
\* the object that filled the record (0: none), for the claims about identity
Miss(rec) == [hit |-> FALSE, rec |-> rec, obj |-> 0]

Found(rec, obj) == [hit |-> TRUE, rec |-> rec, obj |-> obj]

---------------------------------------------------------------------------
(* aabb.rs *)

Aabb(minimum, maximum) == [some |-> TRUE, min |-> minimum, max |-> maximum]

\* Option<Aabb>::None
NoBox == [some |-> FALSE, min |-> Zeros, max |-> Zeros]

RECURSIVE AabbHitFrom(_, _, _, _, _)
AabbHitFrom(box, r, a, t_min, t_max) ==
    IF a > 3 THEN TRUE
    ELSE LET inv_d == FInv(r.dir[a])
             ta == FMul(FAdd(box.min[a], -r.orig[a]), inv_d)
             tb == FMul(FAdd(box.max[a], -r.orig[a]), inv_d)
             t0 == IF FLt(inv_d, 0) THEN tb ELSE ta
             t1 == IF FLt(inv_d, 0) THEN ta ELSE tb
             lo == FMax(t0, t_min)
             hi == FMin(t1, t_max)
         IN  IF FLe(hi, lo) THEN FALSE
             ELSE AabbHitFrom(box, r, a + 1, lo, hi)

\* Aabb::hit
AabbHit(box, r, t_min, t_max) == AabbHitFrom(box, r, 1, t_min, t_max)

\* a surrounding box that keeps the minimum corner of its first operand
surrounding_box_FirstMin(box0, box1) ==
    Aabb(box0.min, [i \in 1..3 |-> FMax(box0.max[i], box1.max[i])])

\* a surrounding box whose minimum corner takes the larger coordinates
surrounding_box_MaxOfMins(box0, box1) ==
    Aabb([i \in 1..3 |-> FMax(box0.min[i], box1.min[i])],
         [i \in 1..3 |-> FMax(box0.max[i], box1.max[i])])

\* Aabb::surrounding_box
surrounding_box(box0, box1) ==
    Aabb([i \in 1..3 |-> FMin(box0.min[i], box1.min[i])],
         [i \in 1..3 |-> FMax(box0.max[i], box1.max[i])])

---------------------------------------------------------------------------
(* sphere.rs, medium.rs, hittable.rs: the objects of a scene *)

Sphere(center, radius, mat) ==
    [kind |-> "sphere", center0 |-> center, center1 |-> center,
     time0 |-> 0, time1 |-> 1, radius |-> radius, mat |-> mat]

MovingSphere(center0, center1, time0, time1, radius, mat) ==
    [kind |-> "moving", center0 |-> center0, center1 |-> center1,
     time0 |-> time0, time1 |-> time1, radius |-> radius, mat |-> mat]

\* Constant::new over a sphere boundary; mat is its phase function
ConstantMedium(center, radius, mat) ==
    [kind |-> "medium", center0 |-> center, center1 |-> center,
     time0 |-> 0, time1 |-> 1, radius |-> radius, mat |-> mat]

\* HittableList::new(): a list holding nothing
EmptyList ==
    [kind |-> "emptylist", center0 |-> Zeros, center1 |-> Zeros,
     time0 |-> 0, time1 |-> 1, radius |-> 0, mat |-> 0]

\* MovingSphere::center
MovingCenter(o, time) ==
    VAdd(o.center0,
         VDiv(VScale(time - o.time0, VSub(o.center1, o.center0)), o.time1 - o.time0))

SphereBox(center, radius) ==
    Aabb(VSub(center, <<radius, radius, radius>>), VAdd(center, <<radius, radius, radius>>))

\* Hittable::bounding_box of a scene object
ObjBoundingBox(o, time0, time1) ==
    CASE o.kind = "sphere" -> SphereBox(o.center0, o.radius)
      [] o.kind = "medium" -> SphereBox(o.center0, o.radius)
      [] o.kind = "moving" ->
            surrounding_box(SphereBox(MovingCenter(o, time0), o.radius),
                            SphereBox(MovingCenter(o, time1), o.radius))
      [] OTHER -> NoBox

\* Sphere::get_sphere_uv in hundredths, on the six axis points of the unit
\* sphere (the table of its doc comment)
get_sphere_uv(p) ==
    CASE p = <<1, 0, 0>>  -> <<50, 50>>
      [] p = <<-1, 0, 0>> -> <<0, 50>>
      [] p = <<0, 1, 0>>  -> <<50, 100>>
      [] p = <<0, -1, 0>> -> <<50, 0>>
      [] p = <<0, 0, 1>>  -> <<25, 50>>
      [] p = <<0, 0, -1>> -> <<75, 50>>
      [] OTHER -> <<0, 0>>

\* the smaller root only, with no second try at the larger one
SphereRoot_NoFallback(center, radius, r, t_min, t_max) ==
    LET oc == VSub(r.orig, center)
        a == LengthSquared(r.dir)
        half_b == Dot(oc, r.dir)
        c == LengthSquared(oc) - radius * radius
        discriminant == half_b * half_b - a * c
    IN  IF discriminant < 0 THEN NaN
        ELSE LET root1 == (-half_b - Sqrt(discriminant)) \div a
             IN  IF ~(root1 < t_min \/ t_max < root1) THEN root1 ELSE NaN

\* the root Sphere::hit accepts: the nearest root in [t_min, t_max], else NaN
SphereRoot(center, radius, r, t_min, t_max) ==
    LET oc == VSub(r.orig, center)
        a == LengthSquared(r.dir)
        half_b == Dot(oc, r.dir)
        c == LengthSquared(oc) - radius * radius
        discriminant == half_b * half_b - a * c
    IN  IF discriminant < 0 THEN NaN
        ELSE LET sqrtd == Sqrt(discriminant)
                 root1 == (-half_b - sqrtd) \div a
                 root2 == (-half_b + sqrtd) \div a
             IN  IF ~(root1 < t_min \/ t_max < root1) THEN root1
                 ELSE IF ~(root2 < t_min \/ t_max < root2) THEN root2
                 ELSE NaN

\* a sphere test that clears the caller's record before it looks for a root
SphereHit_ResetsRecord(id, o, r, t_min, t_max, rec) ==
    LET root == SphereRoot(o.center0, o.radius, r, t_min, t_max)
    IN  IF IsNaN(root) THEN Miss(DefaultRec)
        ELSE LET p == RayAt(r, root)
                 outward_normal == VDiv(VSub(p, o.center0), o.radius)
                 rec1 == set_face_normal([DefaultRec EXCEPT !.t = root, !.p = p], r, outward_normal)
                 uv == get_sphere_uv(outward_normal)
             IN  Found([rec1 EXCEPT !.u = uv[1], !.v = uv[2], !.mat = o.mat], id)

\* Sphere::hit
SphereHit(id, o, r, t_min, t_max, rec) ==
    LET root == SphereRoot(o.center0, o.radius, r, t_min, t_max)
    IN  IF IsNaN(root) THEN Miss(rec)
        ELSE LET p == RayAt(r, root)
                 outward_normal == VDiv(VSub(p, o.center0), o.radius)
                 rec1 == set_face_normal([rec EXCEPT !.t = root, !.p = p], r, outward_normal)
                 uv == get_sphere_uv(outward_normal)
             IN  Found([rec1 EXCEPT !.u = uv[1], !.v = uv[2], !.mat = o.mat], id)

\* MovingSphere::hit: u and v of the record are left as they were
MovingSphereHit(id, o, r, t_min, t_max, rec) ==
    LET center == MovingCenter(o, r.tm)
        root == SphereRoot(center, o.radius, r, t_min, t_max)
    IN  IF IsNaN(root) THEN Miss(rec)
        ELSE LET p == RayAt(r, root)
                 outward_normal == VDiv(VSub(p, center), o.radius)
                 rec1 == set_face_normal([rec EXCEPT !.t = root, !.p = p], r, outward_normal)
             IN  Found([rec1 EXCEPT !.mat = o.mat], id)

\* a medium that scatters at the sampled distance however far the exit is
ConstantHit_NoExitCheck(id, o, r, t_min, t_max, rec, hit_distance) ==
    LET b1 == SphereHit(id, o, r, -Inf, Inf, DefaultRec)
        b2 == SphereHit(id, o, r, b1.rec.t + 1, Inf, DefaultRec)
    IN  IF ~b1.hit \/ ~b2.hit \/ IsInf(hit_distance) THEN Miss(rec)
        ELSE LET t == FMax(FMax(b1.rec.t, t_min), 0)
                      + hit_distance \div Sqrt(LengthSquared(r.dir))
             IN  Found([rec EXCEPT !.t = t, !.p = RayAt(r, t),
                                   !.normal = <<1, 0, 0>>,
                                   !.front_face = TRUE,
                                   !.mat = o.mat], id)

\* Constant::hit; hit_distance is neg_inv_density * ln(rand_range(0.0..1.0)),
\* any value in [0, Inf]
ConstantHit(id, o, r, t_min, t_max, rec, hit_distance) ==
    LET b1 == SphereHit(id, o, r, -Inf, Inf, DefaultRec)
    IN  IF ~b1.hit THEN Miss(rec)
        ELSE LET b2 == SphereHit(id, o, r, b1.rec.t + 1, Inf, DefaultRec)
             IN  IF ~b2.hit THEN Miss(rec)
                 ELSE LET t1a == FMax(b1.rec.t, t_min)
                          t2 == FMin(b2.rec.t, t_max)
                      IN  IF t1a >= t2 THEN Miss(rec)
                          ELSE LET t1 == FMax(t1a, 0)
                                   ray_length == Sqrt(LengthSquared(r.dir))
                                   distance_inside_boundary == (t2 - t1) * ray_length
                               IN  IF hit_distance > distance_inside_boundary THEN Miss(rec)
                                   ELSE LET t == t1 + hit_distance \div ray_length
                                        IN  Found([rec EXCEPT !.t = t, !.p = RayAt(r, t),
                                                              !.normal = <<1, 0, 0>>,
                                                              !.front_face = TRUE,
                                                              !.mat = o.mat], id)

\* Hittable::hit of a scene object
ObjHit(id, o, r, t_min, t_max, rec, hit_distance) ==
    CASE o.kind = "sphere" -> SphereHit(id, o, r, t_min, t_max, rec)
      [] o.kind = "moving" -> MovingSphereHit(id, o, r, t_min, t_max, rec)
      [] o.kind = "medium" -> ConstantHit(id, o, r, t_min, t_max, rec, hit_distance)
      [] OTHER -> Miss(rec)

---------------------------------------------------------------------------
(* the scenes the model builds and queries *)

\* the largest number of objects of an input list
MaxObjs == 5

SphereCenters ==
    << <<0, 6, 0>>, <<2, 4, 2>>, <<4, 0, 6>>, <<6, 2, 4>>,
       <<8, 6, 0>>, <<10, 8, 10>>, <<12, 10, 12>> >>

NumSpheres == Len(SphereCenters)

MovingId == NumSpheres + 1

EmptyId == NumSpheres + 2

MediumId == NumSpheres + 3

\* object id -> object; the material of an object is named by its id.  The
\* moving sphere is where sphere 1 is at time 0, the medium fills sphere 2
Catalogue ==
    [id \in 1..MediumId |->
        IF id <= NumSpheres THEN Sphere(VScale(Unit, SphereCenters[id]), Unit, id)
        ELSE IF id = MovingId
             THEN MovingSphere(VScale(Unit, SphereCenters[1]),
                               VAdd(VScale(Unit, SphereCenters[1]), <<0, 0, 4 * Unit>>),
                               0, 1, Unit, id)
        ELSE IF id = EmptyId THEN EmptyList
        ELSE ConstantMedium(VScale(Unit, SphereCenters[2]), Unit, id)]

Prefix(n) == [i \in 1..n |-> i]

Reverse(s) == [i \in 1..Len(s) |-> s[Len(s) + 1 - i]]

\* the input lists: the first n spheres, in both orders, and with the last
\* replaced by the moving sphere or by an object without a bounding box
InputLists ==
    {Prefix(n) : n \in 0..MaxObjs}
    \cup {Reverse(Prefix(n)) : n \in 2..MaxObjs}
    \cup {[Prefix(n) EXCEPT ![n] = s] : n \in 1..MaxObjs, s \in {MovingId, EmptyId}}

\* BvhNode::from_hittable_list(&cubes, 0.0, 1.0)
Time0 == 0

Time1 == 1

---------------------------------------------------------------------------
(* bvh.rs: the build *)

\* a child of a node: a scene object (leaf) or another BvhNode
LeafRef(id) == [leaf |-> TRUE, id |-> id]

NodeRef(id) == [leaf |-> FALSE, id |-> id]

\* Hittable::bounding_box of a child; BvhNode::bounding_box returns ibox
\* whatever the times
RefBoundingBox(N, ref, time0, time1) ==
    IF ref.leaf THEN ObjBoundingBox(Catalogue[ref.id], time0, time1)
    ELSE N[ref.id].ibox

\* a check that takes a missing box for the default box
check_cond_DefaultBox(N, left, right, time0, time1) ==
    [some |-> TRUE,
     left |-> RefBoundingBox(N, left, time0, time1),
     right |-> RefBoundingBox(N, right, time0, time1)]

\* BvhNode::check_cond: Some((l, r)) or None
check_cond(N, left, right, time0, time1) ==
    LET l == RefBoundingBox(N, left, time0, time1)
        r == RefBoundingBox(N, right, time0, time1)
    IN  IF l.some /\ r.some THEN [some |-> TRUE, left |-> l, right |-> r]
        ELSE [some |-> FALSE, left |-> NoBox, right |-> NoBox]

\* f64::partial_cmp: Some(Ordering), or "None" when an operand is NaN
partial_cmp(left, right) ==
    IF IsNaN(left) \/ IsNaN(right) THEN "None"
    ELSE IF left < right THEN "Less"
    ELSE IF left > right THEN "Greater"
    ELSE "Equal"

\* box_compare on the two boxes found: partial_cmp(..).expect(..) of the
\* minima on the axis
MinCompare(box_a, box_b, axis) ==
    IF partial_cmp(box_a.min[axis], box_b.min[axis]) = "None" THEN "Panic"
    ELSE partial_cmp(box_a.min[axis], box_b.min[axis])

\* box_compare: an Ordering, or "Panic" (no bounding box, or partial_cmp of NaN)
box_compare(a, b, axis) ==
    LET c == check_cond(<<>>, LeafRef(a), LeafRef(b), 0, 0)
    IN  IF ~c.some THEN "Panic"
        ELSE MinCompare(c.left, c.right, axis)

RECURSIVE Perms(_)
Perms(S) ==
    IF S = {} THEN {<<>>}
    ELSE UNION {{<<x>> \o p : p \in Perms(S \ {x})} : x \in S}

\* the slice positions (1-based) sort_unstable_by reorders when the node
\* covers [start, end): the code sorts `objects`, the whole slice
SortRange(objs, start, end) == 1..Len(objs)

\* the outcomes of slice::sort_unstable_by(comparator) on the positions rng:
\* the arrays that hold the same objects there, in an order the comparator
\* accepts (equal elements in any order), and are unchanged elsewhere
SortOutcomes(objs, rng, axis) ==
    LET lo == IF rng = {} THEN 1 ELSE CHOOSE i \in rng : \A j \in rng : i <= j
        ps == Perms(rng)
        arr(p) == [i \in 1..Len(objs) |-> IF i \in rng THEN objs[p[i - lo + 1]] ELSE objs[i]]
    IN  {arr(p) : p \in {q \in ps :
            \A i \in 1..(Len(q) - 1) :
                box_compare(objs[q[i]], objs[q[i + 1]], axis) \in {"Less", "Equal"}}}

\* the sort panics when the comparator does: every element of a slice of two
\* or more is compared at least once
SortPanics(objs, rng, axis) ==
    \E i \in rng, j \in rng : i # j /\ box_compare(objs[i], objs[j], axis) = "Panic"

Frame(node, start, end, phase, axis) ==
    [node |-> node, start |-> start, end |-> end, phase |-> phase, axis |-> axis]

Top == stack[Len(stack)]

Pop == SubSeq(stack, 1, Len(stack) - 1)

\* the BvhNode a call returns: Self { left, right, ibox }
BvhNode(left, right, ibox) == [left |-> left, right |-> right, ibox |-> ibox]

NoQuery == [kind |-> "none"]

\* BvhNode::from_hittable_list -> from_list: objects.to_vec() and the first call
FromHittableList ==
    /\ bpc = "start"
    /\ query = NoQuery
    /\ bpc' = "building"
    /\ objects' = input
    /\ stack' = <<Frame(1, 0, Len(input), "rand", 0)>>
    /\ UNCHANGED <<drv, conf, input, nodes, query, rc, smp, px>>

\* inner_from_list, the comparator: rand_range(0..=2)
ChooseComparator ==
    /\ bpc = "building"
    /\ Top.phase = "rand"
    /\ \E axis \in 1..3 :
          stack' = Pop \o <<[Top EXCEPT !.phase = "enter", !.axis = axis]>>
    /\ UNCHANGED <<drv, conf, input, objects, nodes, bpc, query, rc, smp, px>>

\* assert!(start < end) fails
BuildAssertFail ==
    /\ bpc = "building"
    /\ Top.phase = "enter"
    /\ ~(Top.start < Top.end)
    /\ bpc' = "panic"
    /\ UNCHANGED <<drv, conf, input, objects, stack, nodes, query, rc, smp, px>>

\* the node is returned to the caller, or the build panics in check_cond
ReturnNode(f, left, right, N) ==
    LET c == check_cond(N, left, right, Time0, Time1)
    IN  IF ~c.some
        THEN /\ bpc' = "panic"
             /\ UNCHANGED <<stack, nodes>>
        ELSE /\ nodes' = (f.node :> BvhNode(left, right, surrounding_box(c.left, c.right))) @@ N
             /\ stack' = Pop
             /\ bpc' = IF Len(stack) = 1 THEN "done" ELSE "building"

\* object_span == 1: both children are the one object
BuildLeaf ==
    /\ bpc = "building"
    /\ Top.phase = "enter"
    /\ Top.end - Top.start = 1
    /\ ReturnNode(Top, LeafRef(objects[Top.start + 1]), LeafRef(objects[Top.start + 1]), nodes)
    /\ UNCHANGED <<drv, conf, input, objects, query, rc, smp, px>>

\* the two objects in slice order, whatever the comparator says
PairChildren_SliceOrder(a, b, axis) == <<a, b>>

\* the children of a node over two objects a, b (in slice order)
PairChildren(a, b, axis) ==
    IF box_compare(a, b, axis) = "Greater" THEN <<b, a>> ELSE <<a, b>>

\* object_span == 2: the two objects, ordered by the comparator
BuildPair ==
    /\ bpc = "building"
    /\ Top.phase = "enter"
    /\ Top.end - Top.start = 2
    /\ LET a == objects[Top.start + 1]
           b == objects[Top.start + 2]
       IN  IF box_compare(a, b, Top.axis) = "Panic"
           THEN /\ bpc' = "panic"
                /\ UNCHANGED <<stack, nodes>>
           ELSE LET lr == PairChildren(a, b, Top.axis)
                IN  ReturnNode(Top, LeafRef(lr[1]), LeafRef(lr[2]), nodes)
    /\ UNCHANGED <<drv, conf, input, objects, query, rc, smp, px>>

Mid(f) == f.start + (f.end - f.start) \div 2

\* object_span > 2: sort, then the call for the left half
BuildSplit ==
    /\ bpc = "building"
    /\ Top.phase = "enter"
    /\ Top.end - Top.start > 2
    /\ LET rng == SortRange(objects, Top.start, Top.end)
       IN  IF SortPanics(objects, rng, Top.axis)
           THEN /\ bpc' = "panic"
                /\ UNCHANGED <<objects, stack>>
           ELSE /\ objects' \in SortOutcomes(objects, rng, Top.axis)
                /\ stack' = Pop \o <<[Top EXCEPT !.phase = "left"],
                                     Frame(2 * Top.node, Top.start, Mid(Top), "rand", 0)>>
                /\ bpc' = bpc
    /\ UNCHANGED <<drv, conf, input, nodes, query, rc, smp, px>>

\* the left call has returned: the call for the right half
RecurseRight ==
    /\ bpc = "building"
    /\ Top.phase = "left"
    /\ stack' = Pop \o <<[Top EXCEPT !.phase = "right"],
                         Frame(2 * Top.node + 1, Mid(Top), Top.end, "rand", 0)>>
    /\ UNCHANGED <<drv, conf, input, objects, nodes, bpc, query, rc, smp, px>>

\* both calls have returned: the node over the two BvhNodes
BuildInner ==
    /\ bpc = "building"
    /\ Top.phase = "right"
    /\ ReturnNode(Top, NodeRef(2 * Top.node), NodeRef(2 * Top.node + 1), nodes)
    /\ UNCHANGED <<drv, conf, input, objects, query, rc, smp, px>>

---------------------------------------------------------------------------
(* bvh.rs, hittable.rs: the queries *)

RECURSIVE BvhHit(_, _, _, _, _, _)
\* Hittable::hit of a child of a node
RefHit(N, ref, r, t_min, t_max, rec) ==
    IF ref.leaf THEN ObjHit(ref.id, Catalogue[ref.id], r, t_min, t_max, rec, 0)
    ELSE BvhHit(N, ref.id, r, t_min, t_max, rec)

\* the right child tested over the whole interval
RightBound_NoNarrow(hit_left, rec, t_max) == t_max

\* the upper bound of the right child's test
RightBound(hit_left, rec, t_max) == IF hit_left THEN rec.t ELSE t_max

\* hit_left || hit_right, with the record as the two tests left it
HitEither(rec, l, rr) ==
    IF rr.hit THEN rr
    ELSE IF l.hit THEN l
    ELSE Miss(rec)

\* BvhNode::hit once the left child, with result l, has been tested
BvhHitRight(N, id, r, t_min, t_max, rec, l) ==
    HitEither(rec, l,
              RefHit(N, N[id].right, r, t_min, RightBound(l.hit, l.rec, t_max), l.rec))

\* BvhNode::hit
BvhHit(N, id, r, t_min, t_max, rec) ==
    IF ~AabbHit(N[id].ibox, r, t_min, t_max) THEN Miss(rec)
    ELSE BvhHitRight(N, id, r, t_min, t_max, rec,
                     RefHit(N, N[id].left, r, t_min, t_max, rec))

RECURSIVE ListHitFrom(_, _, _, _, _, _)
\* a loop that keeps the caller's upper bound after a hit
ListHitStep_KeepBound(list, i, r, t_min, closest_so_far, res, h) ==
    IF h.hit THEN ListHitFrom(list, i + 1, r, t_min, closest_so_far, h)
    ELSE ListHitFrom(list, i + 1, r, t_min, closest_so_far, res)

\* the loop body once object i has been tested, with result h
ListHitStep(list, i, r, t_min, closest_so_far, res, h) ==
    IF h.hit THEN ListHitFrom(list, i + 1, r, t_min, h.rec.t, h)
    ELSE ListHitFrom(list, i + 1, r, t_min, closest_so_far, res)

ListHitFrom(list, i, r, t_min, closest_so_far, res) ==
    IF i > Len(list) THEN res
    ELSE ListHitStep(list, i, r, t_min, closest_so_far, res,
                     ObjHit(list[i], Catalogue[list[i]], r, t_min, closest_so_far,
                            DefaultRec, 0))

\* HittableList::hit
ListHit(list, r, t_min, t_max) == ListHitFrom(list, 1, r, t_min, t_max, Miss(DefaultRec))

\* a record a caller may hold before a hit test
JunkRec ==
    [t |-> 77 * Unit, p |-> <<7, 7, 7>>, normal |-> <<0, -1, 0>>, mat |-> 99,
     front_face |-> TRUE, u |-> 33, v |-> 66]

PriorRecs == {DefaultRec, JunkRec}

\* the rays of a query aimed at the point c: along an axis, from `back`
\* before c, straight or shifted sideways by one unit
RaysFrom(c, tm, backs) ==
    {Ray(VAdd(VAdd(c, VScale(-back * sgn, Axis(a))), VScale(side, Axis((a % 3) + 1))),
         VScale(sgn, Axis(a)), tm) :
        a \in 1..3, sgn \in {-1, 1}, back \in backs, side \in {0, Unit}}

\* from three units before c (outside a sphere at c) or from c itself
RaysAt(c, tm) == RaysFrom(c, tm, {0, 3 * Unit})

RaysToward(c, tm) == RaysFrom(c, tm, {3 * Unit})

\* where object id is at time tm
ObjCenter(id, tm) == MovingCenter(Catalogue[id], tm)

TIntervals == {<<1, Inf>>, <<2 * Unit, 3 * Unit>>}

\* a query of the built hierarchy and, for comparison, of the input list
QueryBvh ==
    /\ bpc = "done"
    /\ query = NoQuery
    /\ \E id \in {input[i] : i \in 1..Len(input)}, tm \in {0, 1}, iv \in TIntervals,
          rec0 \in {JunkRec} :
          \E r \in RaysToward(ObjCenter(id, tm), tm) :
             /\ (Catalogue[id].kind # "moving" => tm = 0)
             /\ query' = [kind |-> "bvh", ray |-> r, t_min |-> iv[1], t_max |-> iv[2],
                          rec0 |-> rec0, target |-> 0,
                          res |-> BvhHit(nodes, 1, r, iv[1], iv[2], rec0),
                          list |-> ListHit(input, r, iv[1], iv[2])]
    /\ UNCHANGED <<drv, conf, input, objects, stack, nodes, bpc, rc, smp, px>>

\* the free-path samples of the medium, Inf when the random draw is 0
HitDistances == {0, Unit, 3 * Unit, Inf}

\* a hit test of one object of the scene
QueryObject ==
    /\ bpc = "start"
    /\ query = NoQuery
    /\ \E id \in {input[i] : i \in 1..Len(input)} \cup {MediumId}, tm \in {0, 1},
          iv \in TIntervals, rec0 \in PriorRecs, hd \in HitDistances :
          \E r \in RaysAt(ObjCenter(id, tm), tm) :
             /\ (Catalogue[id].kind # "medium" => hd = 0)
             /\ (Catalogue[id].kind # "moving" => tm = 0)
             /\ query' = [kind |-> "object", ray |-> r, t_min |-> iv[1], t_max |-> iv[2],
                          rec0 |-> rec0, target |-> id,
                          res |-> ObjHit(id, Catalogue[id], r, iv[1], iv[2], rec0, hd),
                          list |-> Miss(DefaultRec)]
    /\ UNCHANGED <<drv, conf, input, objects, stack, nodes, bpc, rc, smp, px>>

---------------------------------------------------------------------------
(* the specification of the hierarchy and the hit tests *)

IdleRc == [pc |-> "idle"]

IdleSmp == [pc |-> "idle"]

IdlePx == [pc |-> "idle"]

IdleDrv == [pc |-> "idle"]

IdleConf == [pc |-> "idle"]

Init ==
    /\ input \in InputLists
    /\ objects = <<>>
    /\ stack = <<>>
    /\ nodes = <<>>
    /\ bpc = "start"
    /\ query = NoQuery
    /\ rc = IdleRc
    /\ smp = IdleSmp
    /\ px = IdlePx
    /\ drv = IdleDrv
    /\ conf = IdleConf

Next ==
    \/ FromHittableList
    \/ ChooseComparator
    \/ BuildAssertFail
    \/ BuildLeaf
    \/ BuildPair
    \/ BuildSplit
    \/ RecurseRight
    \/ BuildInner
    \/ QueryBvh
    \/ QueryObject

Spec == Init /\ [][Next]_vars

\* the same, over lists of plain spheres only
SphereLists == {l \in InputLists : \A i \in 1..Len(l) : Catalogue[l[i]].kind = "sphere"}

InitSpheres == Init /\ input \in SphereLists

SpecSpheres == InitSpheres /\ [][Next]_vars

---------------------------------------------------------------------------
(* the claims about the hierarchy and the hit tests *)

Min2(a, b) == IF a <= b THEN a ELSE b

Max2(a, b) == IF a >= b THEN a ELSE b

RECURSIVE Leaves(_, _)
\* the scene objects reachable below a child
RefLeaves(N, ref) == IF ref.leaf THEN {ref.id} ELSE Leaves(N, ref.id)

\* the scene objects reachable below node id
Leaves(N, id) == RefLeaves(N, N[id].left) \cup RefLeaves(N, N[id].right)

\* box a contains box b
Contains(a, b) == \A i \in 1..3 : a.min[i] <= b.min[i] /\ b.max[i] <= a.max[i]

\* C1: for every list of spheres, ray and interval, and every axis choice of
\* the build, the hierarchy reports a hit iff the list does, and then the same
\* object at the same t
C1_BvhEquivalence ==
    query.kind = "bvh" =>
        /\ query.res.hit = query.list.hit
        /\ query.res.hit =>
              /\ query.res.obj = query.list.obj
              /\ query.res.rec.t = query.list.rec.t

\* C2: the sort of a node over [start, end) with more than two objects leaves
\* every position outside [start, end) as it was, and after it no object of
\* the left half [start, mid) has a larger minimum along the node's axis than
\* an object of the right half [mid, end)
C2_SortWithinRange ==
    [][(bpc = "building" /\ Top.phase = "enter" /\ Top.end - Top.start > 2
            /\ bpc' = "building")
        => /\ \A i \in 1..Len(objects) :
                 (i <= Top.start \/ i > Top.end) => objects'[i] = objects[i]
           /\ \A i \in (Top.start + 1)..Mid(Top), j \in (Mid(Top) + 1)..Top.end :
                 box_compare(objects'[i], objects'[j], Top.axis) \in {"Less", "Equal"}]_vars

\* C3: the box of every node is the component-wise union of its children's
\* boxes, contains the box of every object below it, and is what
\* bounding_box returns for every time interval
C3_NodeBoxIsUnion ==
    \A id \in DOMAIN nodes :
        LET l == RefBoundingBox(nodes, nodes[id].left, Time0, Time1)
            r == RefBoundingBox(nodes, nodes[id].right, Time0, Time1)
        IN  /\ l.some /\ r.some /\ nodes[id].ibox.some
            /\ \A i \in 1..3 :
                  /\ nodes[id].ibox.min[i] = Min2(l.min[i], r.min[i])
                  /\ nodes[id].ibox.max[i] = Max2(l.max[i], r.max[i])
            /\ \A o \in Leaves(nodes, id) :
                  Contains(nodes[id].ibox, ObjBoundingBox(Catalogue[o], Time0, Time1))
            /\ \A t0 \in 0..1, t1 \in 0..1 :
                  RefBoundingBox(nodes, NodeRef(id), t0, t1) = nodes[id].ibox

\* a finished hierarchy of at least two levels over a list with a moving sphere
C3_Witness ==
    /\ bpc = "done"
    /\ ~nodes[1].left.leaf
    /\ \E i \in 1..Len(input) : input[i] = MovingId

HasBox(o) == ObjBoundingBox(Catalogue[o], Time0, Time1).some

\* C4: no node is returned over an empty input or with an object below it
\* that has no bounding box: a build of such an input never finishes
C4_UnboundedAborts ==
    /\ bpc = "done" => Len(input) > 0 /\ \A i \in 1..Len(input) : HasBox(input[i])
    /\ \A id \in DOMAIN nodes : \A o \in Leaves(nodes, id) : HasBox(o)

\* the build of a list of three or more objects, one without a box, has panicked
C4_Witness ==
    /\ bpc = "panic"
    /\ Len(input) >= 3
    /\ \E i \in 1..Len(input) : ~HasBox(input[i])

\* the outward unit normal at p of the sphere of object o at time tm
OutwardNormal(o, p, tm) == VDiv(VSub(p, MovingCenter(o, tm)), o.radius)

\* rec is the record of a hit of object o by ray r within [t_min, t_max]
IsHitOf(rec, o, r, t_min, t_max) ==
    LET d == VSub(rec.p, MovingCenter(o, r.tm))
        n == OutwardNormal(o, rec.p, r.tm)
    IN  /\ t_min <= rec.t /\ rec.t <= t_max
        /\ rec.p = RayAt(r, rec.t)
        /\ rec.mat = o.mat
        /\ IF o.kind = "medium"
           THEN /\ LengthSquared(d) <= o.radius * o.radius
                /\ rec.normal = <<1, 0, 0>>
                /\ rec.front_face
           ELSE /\ LengthSquared(d) = o.radius * o.radius
                /\ rec.front_face = (Dot(r.dir, n) < 0)
                /\ rec.normal = IF Dot(r.dir, n) < 0 THEN n ELSE VNeg(n)

\* C5: a hit test that fails leaves the caller's record as it was; one that
\* succeeds leaves t, point, normal, front_face and material of the hit
C5_HitTransactional ==
    query.kind \in {"bvh", "object"} =>
        IF query.res.hit
        THEN IsHitOf(query.res.rec, Catalogue[query.res.obj], query.ray,
                     query.t_min, query.t_max)
        ELSE query.res.rec = query.rec0

\* a medium whose boundary the ray crosses reports no hit to a caller whose
\* record held other values
C5_Witness ==
    /\ query.kind = "object"
    /\ query.target = MediumId
    /\ ~query.res.hit
    /\ query.rec0 = JunkRec
    /\ SphereHit(MediumId, Catalogue[MediumId], query.ray, -Inf, Inf, DefaultRec).hit

\* C6: in every record of a hit the normal is against the ray, and front_face
\* says that the ray came from outside the surface
C6_NormalAgainstRay ==
    (query.kind \in {"bvh", "object"} /\ query.res.hit) =>
        /\ Dot(query.ray.dir, query.res.rec.normal) <= 0
        /\ query.res.rec.front_face =
              (Dot(query.ray.dir,
                   OutwardNormal(Catalogue[query.res.obj], query.res.rec.p, query.ray.tm)) < 0)

---------------------------------------------------------------------------
(* run.rs: ray_color, as a machine with the call stack of its recursion.
   A colour is a vector of whole numbers. *)

MaxDepth == 3

VMul(a, b) == <<a[1] * b[1], a[2] * b[2], a[3] * b[3]>>

\* what a material does to a ray: the light it emits (black unless it
\* overrides emitted), whether scatter can report a scattered ray, and the
\* attenuation scatter writes
Lambertian(albedo) == [emitted |-> Zeros, scatter |-> {TRUE}, attenuation |-> albedo]

Metal(albedo) == [emitted |-> Zeros, scatter |-> {TRUE, FALSE}, attenuation |-> albedo]

Dielectric == [emitted |-> Zeros, scatter |-> {TRUE}, attenuation |-> <<1, 1, 1>>]

DiffuseLight(emit) == [emitted |-> emit, scatter |-> {FALSE}, attenuation |-> Zeros]

Materials == {Lambertian(<<2, 1, 0>>), Metal(<<1, 2, 3>>), Dielectric, DiffuseLight(<<4, 4, 4>>)}

Backgrounds == {Zeros, <<7, 8, 10>>}

\* the depth handed to the recursive call, kept unchanged
NextDepth_Same(depth) == depth

\* the depth handed to the recursive call
NextDepth(depth) == depth - 1

\* the colour of a scattering hit with the attenuation left out
Combine_NoAttenuation(emitted, attenuation, c) == VAdd(emitted, c)

\* the colour of a scattering hit: emitted + attenuation * c
Combine(emitted, attenuation, c) == VAdd(emitted, VMul(attenuation, c))

RcFrame(depth, mat) == [depth |-> depth, emitted |-> mat.emitted, attenuation |-> mat.attenuation]

\* what the world and the material answered at one level of the recursion
Outcome(hit, mat, scatter) == [hit |-> hit, mat |-> mat, scatter |-> scatter]

NoMaterial == [emitted |-> Zeros, scatter |-> {}, attenuation |-> Zeros]

\* the sampler calls ray_color with the configured depth and background
CallRayColor ==
    /\ rc = IdleRc
    /\ \E d \in 0..MaxDepth, b \in Backgrounds :
          rc' = [pc |-> "entry", depth |-> d, max_depth |-> d, background |-> b,
                 frames |-> <<>>, queries |-> 0, ret |-> Zeros, hist |-> <<>>]
    /\ UNCHANGED <<drv, conf, input, objects, stack, nodes, bpc, query, smp, px>>

\* depth == 0: black, before the world is asked
DepthExhausted ==
    /\ rc.pc = "entry"
    /\ rc.depth = 0
    /\ rc' = [rc EXCEPT !.pc = "return", !.ret = Zeros]
    /\ UNCHANGED <<drv, conf, input, objects, stack, nodes, bpc, query, smp, px>>

\* the world reports no hit: the background
WorldMiss ==
    /\ rc.pc = "entry"
    /\ rc.depth # 0
    /\ rc' = [rc EXCEPT !.pc = "return", !.queries = @ + 1, !.ret = rc.background,
                        !.hist = Append(@, Outcome(FALSE, NoMaterial, FALSE))]
    /\ UNCHANGED <<drv, conf, input, objects, stack, nodes, bpc, query, smp, px>>

\* a hit whose material reports no scattered ray: the emitted light
HitNoScatter ==
    /\ rc.pc = "entry"
    /\ rc.depth # 0
    /\ \E mat \in Materials :
          /\ FALSE \in mat.scatter
          /\ rc' = [rc EXCEPT !.pc = "return", !.queries = @ + 1, !.ret = mat.emitted,
                              !.hist = Append(@, Outcome(TRUE, mat, FALSE))]
    /\ UNCHANGED <<drv, conf, input, objects, stack, nodes, bpc, query, smp, px>>

\* a hit whose material scatters: the recursive call for the scattered ray
HitScatter ==
    /\ rc.pc = "entry"
    /\ rc.depth # 0
    /\ \E mat \in Materials :
          /\ TRUE \in mat.scatter
          /\ rc' = [rc EXCEPT !.queries = @ + 1, !.depth = NextDepth(@),
                              !.frames = Append(@, RcFrame(rc.depth, mat)),
                              !.hist = Append(@, Outcome(TRUE, mat, TRUE))]
    /\ UNCHANGED <<drv, conf, input, objects, stack, nodes, bpc, query, smp, px>>

\* the recursive call returns into emitted + attenuation * (its colour)
ReturnToCaller ==
    /\ rc.pc = "return"
    /\ rc.frames # <<>>
    /\ LET f == rc.frames[Len(rc.frames)]
       IN  rc' = [rc EXCEPT !.depth = f.depth,
                            !.frames = SubSeq(@, 1, Len(@) - 1),
                            !.ret = Combine(f.emitted, f.attenuation, rc.ret)]
    /\ UNCHANGED <<drv, conf, input, objects, stack, nodes, bpc, query, smp, px>>

InitIdle == Init /\ input = <<>>

NextRayColor ==
    \/ CallRayColor
    \/ DepthExhausted
    \/ WorldMiss
    \/ HitNoScatter
    \/ HitScatter
    \/ ReturnToCaller

SpecRayColor == InitIdle /\ [][NextRayColor]_vars

\* ray_color is sequential code: a step that can be taken is taken
SpecRayColorFair == SpecRayColor /\ WF_vars(NextRayColor)

RayColorReturned == rc.pc = "return" /\ rc.frames = <<>>

\* C7: ray_color called with depth d asks the world at most d times, nests at
\* most d recursive calls, answers black without asking when d is 0, and
\* returns
C7_RayColorBounded ==
    /\ [](rc.pc # "idle" =>
            /\ rc.queries <= rc.max_depth
            /\ Len(rc.frames) <= rc.max_depth
            /\ rc.max_depth = 0 => rc.queries = 0 /\ (rc.pc = "return" => rc.ret = Zeros))
    /\ <>RayColorReturned

\* a call with the largest depth has returned after scattering at every level
C7_Witness ==
    /\ RayColorReturned
    /\ rc.max_depth = MaxDepth
    /\ rc.queries = MaxDepth
    /\ \A k \in 1..Len(rc.hist) : rc.hist[k].scatter

RECURSIVE ExpectedColor(_, _, _, _)
\* the colour of one level from what the world and the material answered
\* there and the colour sub of the level below
ExpectedAt(h, background, sub) ==
    IF ~h.hit THEN background
    ELSE IF ~h.scatter THEN h.mat.emitted
    ELSE [i \in 1..3 |-> h.mat.emitted[i] + h.mat.attenuation[i] * sub[i]]

\* the colour of level k, entered with the given depth
ExpectedColor(hist, k, depth, background) ==
    IF depth = 0 THEN Zeros
    ELSE ExpectedAt(hist[k], background,
                    IF hist[k].scatter
                    THEN ExpectedColor(hist, k + 1, depth - 1, background)
                    ELSE Zeros)

\* C8: with depth > 0 every call returns the background on a miss, the
\* emitted light on a hit that does not scatter, and otherwise emitted +
\* attenuation * (the colour of the scattered ray at depth - 1)
C8_RayColorValue ==
    (rc.pc = "return" /\ rc.depth > 0) =>
        rc.ret = ExpectedColor(rc.hist, Len(rc.frames) + 1, rc.depth, rc.background)

\* the outermost call has returned a colour through two scattering levels
C8_Witness ==
    /\ RayColorReturned
    /\ Len(rc.hist) >= 3
    /\ rc.hist[1].scatter /\ rc.hist[2].scatter
    /\ rc.hist[1].mat.attenuation # <<1, 1, 1>>
    /\ rc.ret # Zeros

---------------------------------------------------------------------------
(* run.rs: Runner::irun, the rows of the image computed in parallel *)

MaxWidth == 3

MaxHeight == 4

\* the pixels of row j, in increasing i; a pixel is named by its (i, j)
inner(j, image_width) == [i \in 1..image_width |-> <<i - 1, j>>]

\* (0..image_height) reversed: the items of the parallel iterator, in order
RevRange(image_height) == [k \in 1..image_height |-> image_height - k]

\* the rows in the order the threads finished them
CollectOrder_Completion(range, finished) == finished

\* the order in which collect() lays down the rows: that of the iterator
CollectOrder(range, finished) == range

RECURSIVE FlatMap(_, _, _)
\* the rows, concatenated in the given order from position k on
FlatMap(rows, order, k) ==
    IF k > Len(order) THEN <<>> ELSE rows[order[k]] \o FlatMap(rows, order, k + 1)

\* run() with a configuration
RunSampler ==
    /\ smp = IdleSmp
    /\ \E w \in 1..MaxWidth, h \in 0..MaxHeight :
          smp' = [pc |-> "rows", image_width |-> w, image_height |-> h,
                  rows |-> <<>>, finished |-> <<>>, data |-> <<>>]
    /\ UNCHANGED <<drv, conf, input, objects, stack, nodes, bpc, query, rc, px>>

\* some thread finishes some row
RowDone ==
    /\ smp.pc = "rows"
    /\ \E j \in 0..(smp.image_height - 1) :
          /\ j \notin DOMAIN smp.rows
          /\ smp' = [smp EXCEPT !.rows = (j :> inner(j, smp.image_width)) @@ @,
                                !.finished = Append(@, j)]
    /\ UNCHANGED <<drv, conf, input, objects, stack, nodes, bpc, query, rc, px>>

\* every row is there: collect() returns the buffer
Collect ==
    /\ smp.pc = "rows"
    /\ Len(smp.finished) = smp.image_height
    /\ smp' = [smp EXCEPT !.pc = "collected",
                          !.data = FlatMap(smp.rows,
                                           CollectOrder(RevRange(smp.image_height), smp.finished),
                                           1)]
    /\ UNCHANGED <<drv, conf, input, objects, stack, nodes, bpc, query, rc, px>>

\* Image::new over the buffer, with its assertion on the length
ImageNew ==
    /\ smp.pc = "collected"
    /\ smp' = [smp EXCEPT !.pc = IF Len(smp.data) = smp.image_height * smp.image_width
                                 THEN "image" ELSE "panic"]
    /\ UNCHANGED <<drv, conf, input, objects, stack, nodes, bpc, query, rc, px>>

NextSampler ==
    \/ RunSampler
    \/ RowDone
    \/ Collect
    \/ ImageNew

SpecSampler == InitIdle /\ [][NextSampler]_vars

\* C9: the buffer holds width * height pixels, row j = height - 1 first and
\* row 0 last, each row in increasing i, in whatever order the rows finished
C9_RowMajorOrder ==
    /\ smp.pc # "panic"
    /\ smp.pc \in {"collected", "image"} =>
          /\ Len(smp.data) = smp.image_width * smp.image_height
          /\ \A k \in 0..(Len(smp.data) - 1) :
                smp.data[k + 1] =
                    <<k % smp.image_width, smp.image_height - 1 - (k \div smp.image_width)>>

\* a buffer of several rows and columns whose bottom row finished first
C9_Witness ==
    /\ smp.pc = "image"
    /\ smp.image_width >= 2
    /\ smp.image_height >= 3
    /\ smp.finished[1] = 0
    /\ smp.finished[2] = smp.image_height - 1

---------------------------------------------------------------------------
(* run.rs: the value of one pixel; png.rs: its conversion to bytes *)

MaxSamples == 3

GAMMA == 2

\* the colours ray_color may give to a sample, in thousandths
SampleColors ==
    { <<0, 0, 0>>, <<1, 250, Unit>>, <<999, 4 * Unit, 15 * Unit>>,
      <<2 * Unit, 300 * Unit, Inf>>, <<Inf, Inf, 1001>> }

\* acc + v of colours
FVAdd(a, b) == <<FAdd(a[1], b[1]), FAdd(a[2], b[2]), FAdd(a[3], b[3])>>

\* fix_scale * v
Scale(v, samples_per_pixel) ==
    IF IsNaN(v) \/ IsInf(v) THEN v ELSE v \div samples_per_pixel

\* v.powf(1.0 / gamma), gamma being GAMMA
Powf(v) ==
    IF IsNaN(v) \/ v < 0 THEN NaN
    ELSE IF IsInf(v) THEN Inf
    ELSE IF GAMMA = 2 THEN Sqrt(v * Unit) ELSE v

clamp(x, min, max) == IF FLt(x, min) THEN min ELSE IF FLt(max, x) THEN max ELSE x

\* gamma and scale only, the clamp forgotten
fix_pixel_val_NoClamp(v, samples_per_pixel) == FMul(256, Powf(Scale(v, samples_per_pixel)))

fix_pixel_val(v, samples_per_pixel) ==
    FMul(256, clamp(Powf(Scale(v, samples_per_pixel)), 0, 999))

fix_pixel(p, samples_per_pixel) ==
    <<fix_pixel_val(p[1], samples_per_pixel),
      fix_pixel_val(p[2], samples_per_pixel),
      fix_pixel_val(p[3], samples_per_pixel)>>

\* v as u8: truncated, saturating, NaN to 0
AsU8(v) ==
    IF IsNaN(v) \/ v < 0 THEN 0
    ELSE IF v >= 256 * Unit THEN 255
    ELSE v \div Unit

\* a pixel of a run with some number of samples
StartPixel ==
    /\ px = IdlePx
    /\ \E s \in 0..MaxSamples :
          px' = [pc |-> "sampling", samples_per_pixel |-> s, n |-> 0,
                 acc |-> Zeros, pixel |-> Zeros, vals |-> Zeros]
    /\ UNCHANGED <<drv, conf, input, objects, stack, nodes, bpc, query, rc, smp>>

\* one more sample is added to the sum
AddSample ==
    /\ px.pc = "sampling"
    /\ px.n < px.samples_per_pixel
    /\ \E c \in SampleColors :
          px' = [px EXCEPT !.n = @ + 1,
                           !.acc = IF px.n = 0 THEN c ELSE FVAdd(@, c)]
    /\ UNCHANGED <<drv, conf, input, objects, stack, nodes, bpc, query, rc, smp>>

\* reduce over no sample: the expect panics
NoSample ==
    /\ px.pc = "sampling"
    /\ px.samples_per_pixel = 0
    /\ px' = [px EXCEPT !.pc = "panic"]
    /\ UNCHANGED <<drv, conf, input, objects, stack, nodes, bpc, query, rc, smp>>

\* the sum is divided, gamma-corrected, clamped and scaled
FixPixel ==
    /\ px.pc = "sampling"
    /\ px.samples_per_pixel # 0
    /\ px.n = px.samples_per_pixel
    /\ px' = [px EXCEPT !.pc = "fixed", !.pixel = fix_pixel(px.acc, px.samples_per_pixel)]
    /\ UNCHANGED <<drv, conf, input, objects, stack, nodes, bpc, query, rc, smp>>

\* the PNG writer converts the channels to bytes
SavePng ==
    /\ px.pc = "fixed"
    /\ px' = [px EXCEPT !.pc = "saved",
                        !.vals = <<AsU8(px.pixel[1]), AsU8(px.pixel[2]), AsU8(px.pixel[3])>>]
    /\ UNCHANGED <<drv, conf, input, objects, stack, nodes, bpc, query, rc, smp>>

NextPixel ==
    \/ StartPixel
    \/ AddSample
    \/ NoSample
    \/ FixPixel
    \/ SavePng

SpecPixel == InitIdle /\ [][NextPixel]_vars

\* C10: every channel of a fixed pixel is in [0, 256) and its byte is its
\* whole part, at most 255, however large the sum of the samples
C10_ChannelInRange ==
    px.pc \in {"fixed", "saved"} =>
        \A i \in 1..3 :
            /\ 0 <= px.pixel[i] /\ px.pixel[i] < 256 * Unit
            /\ px.pc = "saved" =>
                  /\ px.vals[i] <= 255
                  /\ px.vals[i] * Unit <= px.pixel[i]
                  /\ px.pixel[i] < (px.vals[i] + 1) * Unit

\* a saved pixel with an infinite channel and a channel far above 1
C10_Witness ==
    /\ px.pc = "saved"
    /\ px.samples_per_pixel >= 2
    /\ IsInf(px.acc[3])
    /\ px.acc[2] >= 300 * Unit /\ ~IsInf(px.acc[2])
    /\ px.vals[3] = 255

---------------------------------------------------------------------------
(* aabb.rs: surrounding_box and hit on boxes and rays drawn from small sets *)

MaxCoord == 1

\* the coordinates of box corners
Coords == {-Unit, 0} \cup {2 * k * Unit : k \in 1..MaxCoord}

\* the boxes with min <= max on every axis, flat ones included
ValidBoxes ==
    {Aabb(<<c[1], c[3], z[1]>>, <<c[2], c[4], z[2]>>) :
        c \in {c \in Coords \X Coords \X Coords \X Coords : c[1] <= c[2] /\ c[3] <= c[4]},
        z \in {<<0, 0>>, <<-Unit, Unit>>}}

\* (minimum + maximum) / 2
BoxCenter(box) == <<(box.min[1] + box.max[1]) \div 2,
                    (box.min[2] + box.max[2]) \div 2,
                    (box.min[3] + box.max[3]) \div 2>>

\* the directions with components -1, 0 and 1
Directions == {d \in {-1, 0, 1} \X {-1, 0, 1} \X {-1, 0, 1} : d # Zeros}

\* Aabb::surrounding_box of two boxes, both ways round, and of a box with itself
SurroundingBoxCall ==
    /\ bpc = "start"
    /\ query = NoQuery
    /\ \E a \in ValidBoxes, b \in ValidBoxes :
          query' = [kind |-> "surrounding_box", box0 |-> a, box1 |-> b,
                    res |-> surrounding_box(a, b),
                    rev |-> surrounding_box(b, a),
                    same |-> surrounding_box(a, a)]
    /\ UNCHANGED <<drv, conf, input, objects, stack, nodes, bpc, rc, smp, px>>

\* Aabb::hit with a ray that is at the centre of the box at t_center
AabbHitCall ==
    /\ bpc = "start"
    /\ query = NoQuery
    /\ \E box \in ValidBoxes, dir \in Directions, t_center \in {Unit, 5 * Unit},
          below \in {1, 4 * Unit}, above \in {1, Inf} :
          LET r == Ray(VSub(BoxCenter(box), VScale(t_center, dir)), dir, 0)
              t_min == t_center - below
              t_max == FAdd(t_center, above)
          IN  query' = [kind |-> "aabb_hit", box |-> box, ray |-> r,
                        t_center |-> t_center, t_min |-> t_min, t_max |-> t_max,
                        res |-> AabbHit(box, r, t_min, t_max)]
    /\ UNCHANGED <<drv, conf, input, objects, stack, nodes, bpc, rc, smp, px>>

NextAabb ==
    \/ SurroundingBoxCall
    \/ AabbHitCall

SpecAabb == InitIdle /\ [][NextAabb]_vars

\* C11: on every axis surrounding_box(A, B) has the smaller minimum and the
\* larger maximum of A and B, so it contains both; it is the same both ways
\* round, and surrounding_box(A, A) is A
C11_SurroundingBox ==
    query.kind = "surrounding_box" =>
        /\ \A i \in 1..3 :
              /\ query.res.min[i] = Min2(query.box0.min[i], query.box1.min[i])
              /\ query.res.max[i] = Max2(query.box0.max[i], query.box1.max[i])
        /\ Contains(query.res, query.box0)
        /\ Contains(query.res, query.box1)
        /\ query.rev = query.res
        /\ query.same = query.box0

\* two boxes neither of which contains the other have been joined
C11_Witness ==
    /\ query.kind = "surrounding_box"
    /\ ~Contains(query.box0, query.box1)
    /\ ~Contains(query.box1, query.box0)
    /\ query.res.min # query.box0.min
    /\ query.res.max # query.box1.max

\* the box has no extent along an axis on which the ray moves
FlatAlongRay(box, r) == \E i \in 1..3 : r.dir[i] # 0 /\ box.min[i] = box.max[i]

\* C12: a ray through the centre of a valid box at t_center hits the box for
\* every t_min < t_center < t_max, flat boxes included
C12_HitThroughCenter ==
    query.kind = "aabb_hit" => query.res

\* C12, amended: the ray hits the box unless the box is flat along an axis on
\* which the ray moves, and then it misses; a zero direction component and a
\* box flat along such an axis do not matter
C12_HitThroughCenterThick ==
    query.kind = "aabb_hit" => (query.res = ~FlatAlongRay(query.box, query.ray))

\* a hit of a box that is flat along an axis on which the ray stands still
C12_Witness ==
    /\ query.kind = "aabb_hit"
    /\ query.res
    /\ \E i \in 1..3 : query.ray.dir[i] = 0 /\ query.box.min[i] = query.box.max[i]
    /\ \E i \in 1..3 : query.ray.dir[i] = 0 /\ query.box.min[i] < query.box.max[i]

---------------------------------------------------------------------------
(* material.rs: Dielectric::scatter.  Lengths here are in tenths (One is
   1.0) and probabilities in units of 10^-5, which keeps the directions
   below, their dot products with axis normals and (1 - cos)^5 exact. *)

One == 10

Prob1 == 100000

\* unit vectors: the axes and the 3-4-5 directions of the coordinate planes
UnitDirections ==
    {d \in {-10, -8, -6, 0, 6, 8, 10} \X {-10, -8, -6, 0, 6, 8, 10} \X {-10, -8, -6, 0, 6, 8, 10} :
        LengthSquared(d) = One * One}

\* unit normals along the axes
AxisNormals == {d \in UnitDirections : \E i \in 1..3 : d[i] \in {-One, One}}

\* CVec::unit_vector
unit_vector(a) == VDiv(VScale(One, a), SqrtSearch(LengthSquared(a), 0, 4 * One))

\* Vec3::reflect: v - n * 2 * dot(v, n)
reflect(v, n) == VSub(v, VDiv(VScale(2 * (Dot(v, n) \div One), n), One))

\* Vec3::refract
refract(uv, n, etai_over_etat) ==
    LET d == Dot(VNeg(uv), n) \div One
        cos_theta == IF d < One THEN d ELSE One
        r_out_perp == VDiv(VScale(etai_over_etat, VAdd(uv, VDiv(VScale(cos_theta, n), One))), One)
        t == One * One - LengthSquared(r_out_perp)
        root == SqrtSearch(IF t < 0 THEN -t ELSE t, 0, 4 * One)
        r_out_parallel == VDiv(VScale(-root, n), One)
    IN  VAdd(r_out_perp, r_out_parallel)

\* Dielectric::reflectance (Schlick), as a probability
reflectance(cosine, ref_idx) ==
    LET q == ((One - ref_idx) * One) \div (One + ref_idx)
        r0 == (q * q * (Prob1 \div (One * One)))
        c == One - cosine
    IN  r0 + ((Prob1 - r0) \div (One * One)) * ((c * c * c * c * c) \div (One * One * One))

\* Dielectric::scatter: the direction of the scattered ray; rand is the
\* draw of rand_range(0.0..1.0)
DielectricScatter(ir, r_in_direction, normal, front_face, rand) ==
    LET refraction_ratio == IF front_face THEN (One * One) \div ir ELSE ir
        unit_direction == unit_vector(r_in_direction)
        cos_theta == Min2(Dot(VNeg(unit_direction), normal) \div One, One)
        sin_theta == SqrtSearch(One * One - cos_theta * cos_theta, 0, 4 * One)
        cannot_refract == refraction_ratio * sin_theta > One * One
    IN  IF cannot_refract \/ reflectance(cos_theta, refraction_ratio) > rand
        THEN reflect(unit_direction, normal)
        ELSE refract(unit_direction, normal, refraction_ratio)

\* the draws of rand_range(0.0..1.0)
RandDraws == {0, 31, 32, 1023, 1024, Prob1 \div 2, Prob1 - 1}

\* a ray strikes a Dielectric of refractive index 1.0; the normal of the
\* record is against the ray or across it, as set_face_normal leaves it
ScatterCall ==
    /\ bpc = "start"
    /\ query = NoQuery
    /\ \E d \in UnitDirections, len \in {1, 2}, n \in AxisNormals,
          front_face \in BOOLEAN, rand \in RandDraws :
          /\ Dot(d, n) <= 0
          /\ query' = [kind |-> "scatter", ir |-> One, dir |-> VScale(len, d),
                       normal |-> n, front_face |-> front_face, rand |-> rand,
                       res |-> DielectricScatter(One, VScale(len, d), n, front_face, rand)]
    /\ UNCHANGED <<drv, conf, input, objects, stack, nodes, bpc, rc, smp, px>>

NextDielectric ==
    \/ ScatterCall

SpecDielectric == InitIdle /\ [][NextDielectric]_vars

\* C13: a Dielectric of refractive index 1.0 scatters every ray into its own
\* (normalized) direction, whatever the normal and the random draw
C13_NoBending ==
    query.kind = "scatter" => query.res = unit_vector(query.dir)

---------------------------------------------------------------------------
(* sphere.rs, objects.rs: Sphere::hit on rays of any length of direction *)

\* the sphere the rays below are sent at
TargetSphere == Catalogue[2]

\* rays along an axis, of direction length 1 or 2, that pass the centre at
\* the given distance to the side, from `back` before the point nearest to it
SphereRays ==
    {Ray(VAdd(VAdd(TargetSphere.center0, VScale(-back * sgn, Axis(a))),
              VScale(side, Axis((a % 3) + 1))),
         VScale(len * sgn, Axis(a)), 0) :
        a \in 1..3, sgn \in {-1, 1}, len \in {1, 2},
        back \in {-3 * Unit, 0, 500, 3 * Unit, 5 * Unit},
        side \in {0, 600, Unit, 2 * Unit}}

SphereIntervals == {<<1, Inf>>, <<-Inf, Inf>>, <<2 * Unit, 3 * Unit>>, <<0, 1500>>}

\* Sphere::hit with a fresh record
SphereHitCall ==
    /\ bpc = "start"
    /\ query = NoQuery
    /\ \E r \in SphereRays, iv \in SphereIntervals :
          query' = [kind |-> "sphere_hit", ray |-> r, t_min |-> iv[1], t_max |-> iv[2],
                    res |-> SphereHit(2, TargetSphere, r, iv[1], iv[2], DefaultRec)]
    /\ UNCHANGED <<drv, conf, input, objects, stack, nodes, bpc, rc, smp, px>>

NextSphere ==
    \/ SphereHitCall

SpecSphere == InitIdle /\ [][NextSphere]_vars

\* the parameters at which ray r is on the surface of the target sphere
RootsOf(r) ==
    {t \in {50 * k : k \in -120..120} :
        LengthSquared(VSub(RayAt(r, t), TargetSphere.center0))
            = TargetSphere.radius * TargetSphere.radius}

SetMin(S) == CHOOSE x \in S : \A y \in S : x <= y

SetMax(S) == CHOOSE x \in S : \A y \in S : x >= y

InRange(t, t_min, t_max) == t_min <= t /\ t <= t_max

\* the smaller root if it is in [t_min, t_max], else the larger one if that
\* is, else no hit; no hit without roots
RootRule(q) ==
    LET roots == RootsOf(q.ray)
    IN  IF roots = {} THEN ~q.res.hit
        ELSE IF InRange(SetMin(roots), q.t_min, q.t_max)
             THEN q.res.hit /\ q.res.rec.t = SetMin(roots)
        ELSE IF InRange(SetMax(roots), q.t_min, q.t_max)
             THEN q.res.hit /\ q.res.rec.t = SetMax(roots)
        ELSE ~q.res.hit

\* |ray.direction|, the rays being along an axis
DirLength(r) == Sqrt(LengthSquared(r.dir) * Unit * Unit) \div Unit

\* the distance of the origin from the centre
OriginDistance(r) == Sqrt(LengthSquared(VSub(r.orig, TargetSphere.center0)))

\* the ray moves straight at the centre from outside the sphere
AimedFromOutside(r) ==
    /\ OriginDistance(r) > TargetSphere.radius
    /\ \E k \in 1..6 : VAdd(r.orig, VScale(k * 500, r.dir)) = TargetSphere.center0

OriginInside(r) ==
    LengthSquared(VSub(r.orig, TargetSphere.center0))
        < TargetSphere.radius * TargetSphere.radius

\* C14: the smaller root in range, else the larger root in range, else no
\* hit; so a ray aimed at the centre from distance d > r hits at t = d - r,
\* and a ray from inside hits once, at the larger root (the interval
\* allowing these values)
C14_SphereRootsLiteral ==
    query.kind = "sphere_hit" =>
        /\ RootRule(query)
        /\ (AimedFromOutside(query.ray)
              /\ InRange(OriginDistance(query.ray) - TargetSphere.radius,
                         query.t_min, query.t_max))
           => (query.res.hit
                 /\ query.res.rec.t = OriginDistance(query.ray) - TargetSphere.radius)
        /\ (OriginInside(query.ray)
              /\ InRange(SetMax(RootsOf(query.ray)), query.t_min, query.t_max))
           => (query.res.hit /\ query.res.rec.t = SetMax(RootsOf(query.ray)))

\* C14, amended: the rule of the roots as claimed; the hit of a ray aimed at
\* the centre from distance d > r is at t = (d - r) / |direction| when the
\* interval holds that value; a ray from inside hits at the larger root, the
\* only root in the interval, when 0 <= t_min <= larger root <= t_max
C14_SphereRoots ==
    query.kind = "sphere_hit" =>
        /\ RootRule(query)
        /\ (AimedFromOutside(query.ray)
              /\ InRange((OriginDistance(query.ray) - TargetSphere.radius)
                            \div DirLength(query.ray), query.t_min, query.t_max))
           => (query.res.hit
                 /\ query.res.rec.t * DirLength(query.ray)
                      = OriginDistance(query.ray) - TargetSphere.radius)
        /\ (OriginInside(query.ray) /\ 0 <= query.t_min
              /\ InRange(SetMax(RootsOf(query.ray)), query.t_min, query.t_max))
           => /\ query.res.hit
              /\ query.res.rec.t = SetMax(RootsOf(query.ray))
              /\ {t \in RootsOf(query.ray) : InRange(t, query.t_min, query.t_max)}
                    = {query.res.rec.t}

\* a ray of direction length 2 from inside the sphere, off its centre, has
\* hit at the larger root
C14_Witness ==
    /\ query.kind = "sphere_hit"
    /\ OriginInside(query.ray)
    /\ query.ray.orig # TargetSphere.center0
    /\ DirLength(query.ray) = 2
    /\ query.t_min = 1
    /\ query.res.hit
    /\ query.res.rec.t = SetMax(RootsOf(query.ray))
    /\ SetMin(RootsOf(query.ray)) < 0

---------------------------------------------------------------------------
(* The driver: main, create_image and the repetition loop *)

MaxRep == 3

Worlds == {"TwoSpheres", "Earth", "FinalScene"}

(* ImageTexture::new: loader::read(path)? *)
ImageTextureNew(asset_ok) == IF asset_ok THEN "ok" ELSE "err"

(* scenes::setup: only earth()? and final_scene()? can fail *)
SceneSetup(world, asset_ok) ==
    IF world \in {"Earth", "FinalScene"} THEN ImageTextureNew(asset_ok)
    ELSE "ok"

Try_Unchecked(result) == "spawn"

(* let settings = scenes::setup(WORLD)?; *)
Try(result) == IF result = "err" THEN "error" ELSE "spawn"

(* Buffers one render can return: two pixels, one channel each *)
Buffers == {<<0, 0>>, <<1000, 3000>>, <<255000, 2000>>}

Accumulate_Overwrite(acc, v) == v

(* for (a, b) in acc.iter_mut().zip(v.iter()) { *a += *b } *)
Accumulate(acc, v) ==
    [i \in 1..Min2(Len(acc), Len(v)) |-> FAdd(acc[i], v[i])]

RECURSIVE CollectSum(_, _, _)
(* res = tmp[0]; for arr in tmp.iter().skip(1) { res[i] += arr[i] } *)
CollectSum(tmp, k, res) ==
    IF k > Len(tmp) THEN res
    ELSE CollectSum(tmp, k + 1, Accumulate(res, tmp[k]))

(* *val /= len *)
Average(res, len) == [i \in 1..Len(res) |-> res[i] \div len]

CreateImage ==
    /\ bpc = "start" /\ query = NoQuery
    /\ drv = IdleDrv
    /\ \E world \in Worlds, asset_ok \in BOOLEAN, rep \in 0..MaxRep,
          driver \in {"reduce", "collect"} :
          drv' = [pc |-> "setup", world |-> world, asset_ok |-> asset_ok,
                  rep |-> rep, driver |-> driver, setup |-> "none",
                  threads |-> {}, tmp |-> <<>>, acc |-> <<>>, res |-> <<>>,
                  failed |-> FALSE, written |-> FALSE]
    /\ UNCHANGED <<conf, input, objects, stack, nodes, bpc, query, rc, smp, px>>

ScenesSetup ==
    /\ drv.pc = "setup"
    /\ LET result == SceneSetup(drv.world, drv.asset_ok)
       IN  drv' = [drv EXCEPT !.setup = result, !.pc = Try(result)]
    /\ UNCHANGED <<conf, input, objects, stack, nodes, bpc, query, rc, smp, px>>

(* create_image().expect(...) in main *)
MainExpectPanics ==
    /\ drv.pc = "error"
    /\ drv' = [drv EXCEPT !.pc = "panicked"]
    /\ UNCHANGED <<conf, input, objects, stack, nodes, bpc, query, rc, smp, px>>

SpawnThreads ==
    /\ drv.pc = "spawn"
    /\ drv' = [drv EXCEPT !.threads = {"ticker", "mp_handler", "data"},
                          !.pc = "run"]
    /\ UNCHANGED <<conf, input, objects, stack, nodes, bpc, query, rc, smp, px>>

Render ==
    /\ drv.pc = "run"
    /\ Len(drv.tmp) < drv.rep
    /\ \E buf \in Buffers :
          drv' = [drv EXCEPT
                    !.tmp = Append(@, buf),
                    !.acc = IF drv.driver = "reduce"
                            THEN IF drv.tmp = <<>> THEN buf
                                 ELSE Accumulate(@, buf)
                            ELSE @]
    /\ UNCHANGED <<conf, input, objects, stack, nodes, bpc, query, rc, smp, px>>

RenderPanics ==
    /\ drv.pc = "run"
    /\ Len(drv.tmp) < drv.rep
    /\ drv' = [drv EXCEPT !.failed = TRUE, !.pc = "unwinding"]
    /\ UNCHANGED <<conf, input, objects, stack, nodes, bpc, query, rc, smp, px>>

(* reduce(..).unwrap() on no renders, tmp[0] on an empty Vec *)
NoRenders ==
    /\ drv.pc = "run"
    /\ drv.rep = 0
    /\ drv' = [drv EXCEPT !.pc = "unwinding"]
    /\ UNCHANGED <<conf, input, objects, stack, nodes, bpc, query, rc, smp, px>>

RunReturns ==
    /\ drv.pc = "run"
    /\ drv.rep > 0
    /\ Len(drv.tmp) = drv.rep
    /\ LET sum == IF drv.driver = "reduce" THEN drv.acc
                  ELSE CollectSum(drv.tmp, 2, drv.tmp[1])
       IN  drv' = [drv EXCEPT !.res = Average(sum, drv.rep),
                              !.pc = "joining"]
    /\ UNCHANGED <<conf, input, objects, stack, nodes, bpc, query, rc, smp, px>>

(* Err(err) => panic::resume_unwind(err) *)
ResumeUnwind ==
    /\ drv.pc = "unwinding"
    /\ drv' = [drv EXCEPT !.pc = "panicked"]
    /\ UNCHANGED <<conf, input, objects, stack, nodes, bpc, query, rc, smp, px>>

JoinThreads ==
    /\ drv.pc = "joining"
    /\ \E mp_ok \in BOOLEAN :
          drv' = [drv EXCEPT !.threads = {},
                             !.pc = IF mp_ok THEN "returned" ELSE "error"]
    /\ UNCHANGED <<conf, input, objects, stack, nodes, bpc, query, rc, smp, px>>

(* Image::new and render::save(..).expect(..) *)
WriteImage ==
    /\ drv.pc = "returned"
    /\ \E save_ok \in BOOLEAN :
          drv' = [drv EXCEPT !.written = save_ok,
                             !.pc = IF save_ok THEN "done" ELSE "panicked"]
    /\ UNCHANGED <<conf, input, objects, stack, nodes, bpc, query, rc, smp, px>>

NextDriver ==
    \/ CreateImage
    \/ ScenesSetup
    \/ MainExpectPanics
    \/ SpawnThreads
    \/ Render
    \/ RenderPanics
    \/ NoRenders
    \/ RunReturns
    \/ ResumeUnwind
    \/ JoinThreads
    \/ WriteImage

SpecDriver == InitIdle /\ [][NextDriver]_vars

(* C15: after a failed scene construction create_image returns the error:
   no thread is ever spawned, no render is run and no image is written. *)
C15_FailedSetupStops ==
    (drv.pc # "idle" /\ drv.setup = "err") =>
        /\ drv.pc \in {"error", "panicked"}
        /\ drv.threads = {}
        /\ drv.tmp = <<>>
        /\ drv.res = <<>>
        /\ ~drv.written

C15_Witness ==
    /\ drv.pc = "panicked"
    /\ drv.setup = "err"
    /\ drv.world = "Earth"

RECURSIVE SumAt(_, _, _)
SumAt(renders, n, i) ==
    IF n = 0 THEN 0 ELSE SumAt(renders, n - 1, i) + renders[n][i]

(* C16: the buffer the repetition driver returns is, per pixel, the sum of
   all the renders divided by the repetition count; when a render fails no
   buffer is returned and nothing is written, the panic reaches the caller. *)
C16_RepetitionAverage ==
    drv.pc # "idle" =>
        /\ drv.res # <<>> =>
              /\ Len(drv.tmp) = drv.rep
              /\ ~drv.failed
              /\ Len(drv.res) = 2
              /\ \A i \in 1..2 :
                    drv.res[i] = SumAt(drv.tmp, drv.rep, i) \div drv.rep
        /\ drv.failed =>
              /\ drv.pc \in {"unwinding", "panicked"}
              /\ drv.res = <<>>
              /\ ~drv.written

C16_Witness ==
    /\ drv.pc = "done"
    /\ drv.rep = 3
    /\ drv.tmp = <<<<1000, 3000>>, <<255000, 2000>>, <<1000, 3000>>>>
    /\ drv.res = <<85666, 2666>>

---------------------------------------------------------------------------
(* The sampler's image-plane coordinates *)

(* rand_range(0.0..1.0), in thousandths *)
Jitters == {0, 500, Unit - 1}

(* f64 division of a by the integer n *)
FDivInt(a, n) ==
    IF n = 0 THEN (IF a = 0 THEN NaN ELSE Sign(a) * Inf)
    ELSE a \div n

(* let calc = |o, l| ((o as f64) + rand_range(0.0..1.0)) / (l - 1) as f64; *)
calc(o, l, rand) == FDivInt(o * Unit + rand, l - 1)

(* One sample of pixel (i, j): the (u, v) handed to Camera::get_ray *)
GetRayCall ==
    /\ bpc = "start" /\ query = NoQuery
    /\ \E image_width \in 1..MaxWidth, image_height \in 1..MaxHeight :
       \E i \in 0..(image_width - 1), j \in 0..(image_height - 1) :
       \E rand_v \in Jitters, rand_u \in Jitters :
          query' = [kind |-> "get_ray",
                    image_width |-> image_width,
                    image_height |-> image_height,
                    i |-> i, j |-> j,
                    v |-> calc(j, image_height, rand_v),
                    u |-> calc(i, image_width, rand_u)]
    /\ UNCHANGED <<drv, conf, input, objects, stack, nodes, bpc, rc, smp, px>>

NextGetRay ==
    \/ GetRayCall

SpecGetRay == InitIdle /\ [][NextGetRay]_vars

InUnitInterval(x) == FLe(0, x) /\ FLe(x, Unit)

(* C17: every (u, v) passed to Camera::get_ray lies in [0,1] x [0,1]. *)
C17_UvInUnitSquare ==
    query.kind = "get_ray" =>
        InUnitInterval(query.u) /\ InUnitInterval(query.v)

---------------------------------------------------------------------------
(* hittable.rs: RotateY::calculate_bound *)

(* <<sin_theta, cos_theta>> in thousandths: 0, 90, 180 and 270 degrees and
   the angle of the 3-4-5 triangle *)
Angles == {<<0, Unit>>, <<Unit, 0>>, <<0, -Unit>>, <<-Unit, 0>>, <<600, 800>>}

(* the product of a sine or cosine and a coordinate *)
TMul(c, x) == (c * x) \div Unit

(* let calc = |iv, bv| iv * bv + (1.0 - iv) * bv; *)
CornerCalc(iv, bv) == iv * bv + (1 - iv) * bv

(* the points the triple loop tests *)
Testers(bbox, sin_theta, cos_theta) ==
    {LET x == CornerCalc(i, bbox.max[1])
         cosx == TMul(cos_theta, x)
         sinx == TMul(-sin_theta, x)
         y == CornerCalc(j, bbox.max[2])
         z == CornerCalc(k, bbox.max[3])
         newx == cosx + TMul(sin_theta, z)
         newz == sinx + TMul(cos_theta, z)
     IN  <<newx, y, newz>> : i \in 0..1, j \in 0..1, k \in 0..1}

(* min and max start at +-infinity and take f64::min, f64::max of each point *)
Extent(points) ==
    Aabb([a \in 1..3 |-> SetMin({t[a] : t \in points} \cup {Inf})],
         [a \in 1..3 |-> SetMax({t[a] : t \in points} \cup {-Inf})])

calculate_bound(bbox, sin_theta, cos_theta) ==
    IF ~bbox.some THEN NoBox
    ELSE Extent(Testers(bbox, sin_theta, cos_theta))

(* RotateY::new followed by bounding_box *)
RotateYNew ==
    /\ bpc = "start" /\ query = NoQuery
    /\ \E child \in ValidBoxes \cup {NoBox}, angle \in Angles :
          query' = [kind |-> "rotate_y", child |-> child,
                    sin_theta |-> angle[1], cos_theta |-> angle[2],
                    bbox |-> calculate_bound(child, angle[1], angle[2])]
    /\ UNCHANGED <<drv, conf, input, objects, stack, nodes, bpc, rc, smp, px>>

NextRotateY ==
    \/ RotateYNew

SpecRotateY == InitIdle /\ [][NextRotateY]_vars

(* the 8 corners of a box *)
Corners(box) ==
    {<<x, y, z>> : x \in {box.min[1], box.max[1]},
                   y \in {box.min[2], box.max[2]},
                   z \in {box.min[3], box.max[3]}}

(* a point rotated about Y *)
RotateCorner(p, sin_theta, cos_theta) ==
    <<TMul(cos_theta, p[1]) + TMul(sin_theta, p[3]),
      p[2],
      TMul(-sin_theta, p[1]) + TMul(cos_theta, p[3])>>

(* C18: the box RotateY precomputes contains each of the 8 rotated corners
   of the child's box, is no larger than their extent, and for angle 0 is
   the child's box. *)
C18_RotatedExtent ==
    (query.kind = "rotate_y" /\ query.child.some) =>
        LET rotated == {RotateCorner(c, query.sin_theta, query.cos_theta) :
                            c \in Corners(query.child)}
        IN  /\ query.bbox.some
            /\ \A c \in rotated : \A a \in 1..3 :
                  query.bbox.min[a] <= c[a] /\ c[a] <= query.bbox.max[a]
            /\ \A a \in 1..3 :
                  /\ \E c \in rotated : c[a] = query.bbox.min[a]
                  /\ \E c \in rotated : c[a] = query.bbox.max[a]
            /\ (query.sin_theta = 0 /\ query.cos_theta = Unit) =>
                  query.bbox = query.child

---------------------------------------------------------------------------
(* hittable.rs: Translate *)

MovedRay_Added(r, offset) == Ray(VAdd(r.orig, offset), r.dir, r.tm)

(* let moved = Ray::with_time(origin - self.offset, direction, time); *)
MovedRay(r, offset) == Ray(VSub(r.orig, offset), r.dir, r.tm)

(* rec.p += self.offset; rec.set_face_normal(&moved, &normal); *)
TranslateRecord(id, child, offset, moved) ==
    IF ~child.hit THEN Miss(DefaultRec)
    ELSE Found(set_face_normal([child.rec EXCEPT !.p = VAdd(@, offset)],
                               moved, child.rec.normal), id)

(* Translate::hit: the child fills a fresh record *)
TranslateHit(id, ptr, offset, r, t_min, t_max) ==
    TranslateRecord(id,
                    ObjHit(id, ptr, MovedRay(r, offset), t_min, t_max, DefaultRec, 0),
                    offset, MovedRay(r, offset))

(* Translate::bounding_box *)
TranslateBoundingBox(ptr, offset, time0, time1) ==
    LET output == ObjBoundingBox(ptr, time0, time1)
    IN  IF ~output.some THEN NoBox
        ELSE Aabb(VAdd(output.min, offset), VAdd(output.max, offset))

Offsets == {Zeros, <<Unit, 0, 0>>, <<0, -2 * Unit, 0>>, <<500, 500, 3 * Unit>>}

(* a sphere, and an empty list, which has no bounding box *)
TranslateChildren == {2, EmptyId}

TranslateIntervals == {<<1, Inf>>, <<2 * Unit, 3 * Unit>>}

(* the rays aimed at the child and those aimed at where it is moved to *)
TranslateRays(offset) ==
    SphereRays \cup {Ray(VAdd(r.orig, offset), r.dir, r.tm) : r \in SphereRays}

(* Translate::new(child, offset), then hit and bounding_box *)
TranslateCall ==
    /\ bpc = "start" /\ query = NoQuery
    /\ \E id \in TranslateChildren, offset \in Offsets, iv \in TranslateIntervals :
       \E r \in TranslateRays(offset) :
          query' = [kind |-> "translate", id |-> id, offset |-> offset,
                    ray |-> r, t_min |-> iv[1], t_max |-> iv[2],
                    res |-> TranslateHit(id, Catalogue[id], offset, r, iv[1], iv[2]),
                    bbox |-> TranslateBoundingBox(Catalogue[id], offset, Time0, Time1)]
    /\ UNCHANGED <<drv, conf, input, objects, stack, nodes, bpc, rc, smp, px>>

NextTranslate ==
    \/ TranslateCall

SpecTranslate == InitIdle /\ [][NextTranslate]_vars

(* the child built at its place plus offset *)
MovedChild(o, offset) ==
    [o EXCEPT !.center0 = VAdd(@, offset), !.center1 = VAdd(@, offset)]

(* C19: Translate(child, offset) hits exactly when the child is hit by the
   ray with origin shifted by -offset, and exactly when the child placed at
   offset is hit by the ray itself, with the same t; the hit point is the
   child's plus offset, which is ray.at(t); the bounding box is the child's
   with offset added to both corners, and None when the child has none. *)
C19_TranslateMovesChild ==
    query.kind = "translate" =>
        LET o == Catalogue[query.id]
            shifted == Ray(VSub(query.ray.orig, query.offset),
                           query.ray.dir, query.ray.tm)
            child == ObjHit(query.id, o, shifted, query.t_min, query.t_max,
                            DefaultRec, 0)
            placed == ObjHit(query.id, MovedChild(o, query.offset), query.ray,
                             query.t_min, query.t_max, DefaultRec, 0)
            cbox == ObjBoundingBox(o, Time0, Time1)
        IN  /\ query.res.hit = child.hit
            /\ query.res.hit = placed.hit
            /\ query.res.hit =>
                  /\ query.res.rec.t = child.rec.t
                  /\ query.res.rec.t = placed.rec.t
                  /\ query.res.rec.p = VAdd(child.rec.p, query.offset)
                  /\ query.res.rec.p = RayAt(query.ray, query.res.rec.t)
            /\ query.bbox.some = cbox.some
            /\ cbox.some =>
                  /\ query.bbox.min = VAdd(cbox.min, query.offset)
                  /\ query.bbox.max = VAdd(cbox.max, query.offset)

C19_Witness ==
    /\ query.kind = "translate"
    /\ query.offset = <<500, 500, 3 * Unit>>
    /\ query.res.hit
    /\ query.res.rec.t = 2 * Unit
    /\ query.bbox.some

---------------------------------------------------------------------------
(* run.rs: Config *)

IMAGE_WIDTH == 640

SAMPLES_PER_PIXEL == 100

(* aspect ratios as <<numerator, denominator>>; ASPECT_RATIO is 16.0 / 9.0 *)
ASPECT_RATIO == <<16, 9>>

(* (width as f64 / aspect_ratio) as usize, for a positive aspect ratio *)
HeightOf(image_width, aspect_ratio) ==
    (image_width * aspect_ratio[2]) \div aspect_ratio[1]

IMAGE_HEIGHT == HeightOf(IMAGE_WIDTH, ASPECT_RATIO)

fix_image_height_Stale(c) == c

(* Config::fix_image_height *)
fix_image_height(c) ==
    [c EXCEPT !.image_height = HeightOf(c.image_width, c.aspect_ratio)]

Widths == {0, 1, 3, 600, IMAGE_WIDTH}

AspectRatios == {ASPECT_RATIO, <<1, 1>>, <<3, 2>>, <<1, 2>>}

SampleCounts == {1, SAMPLES_PER_PIXEL, 400}

(* Config::default *)
ConfigDefault ==
    /\ bpc = "start" /\ query = NoQuery
    /\ conf = IdleConf
    /\ conf' = [pc |-> "built", op |-> "default",
                aspect_ratio |-> ASPECT_RATIO,
                image_width |-> IMAGE_WIDTH,
                image_height |-> IMAGE_HEIGHT,
                samples_per_pixel |-> SAMPLES_PER_PIXEL,
                background |-> Zeros]
    /\ UNCHANGED <<drv, input, objects, stack, nodes, bpc, query, rc, smp, px>>

set_image_width ==
    /\ conf.pc = "built"
    /\ \E image_width \in Widths :
          conf' = fix_image_height([conf EXCEPT !.op = "set_image_width",
                                                !.image_width = image_width])
    /\ UNCHANGED <<drv, input, objects, stack, nodes, bpc, query, rc, smp, px>>

set_aspect_ratio ==
    /\ conf.pc = "built"
    /\ \E aspect_ratio \in AspectRatios :
          conf' = fix_image_height([conf EXCEPT !.op = "set_aspect_ratio",
                                                !.aspect_ratio = aspect_ratio])
    /\ UNCHANGED <<drv, input, objects, stack, nodes, bpc, query, rc, smp, px>>

set_samples_per_pixel ==
    /\ conf.pc = "built"
    /\ \E samples_per_pixel \in SampleCounts :
          conf' = [conf EXCEPT !.op = "set_samples_per_pixel",
                               !.samples_per_pixel = samples_per_pixel]
    /\ UNCHANGED <<drv, input, objects, stack, nodes, bpc, query, rc, smp, px>>

set_background ==
    /\ conf.pc = "built"
    /\ \E background \in Backgrounds :
          conf' = [conf EXCEPT !.op = "set_background",
                               !.background = background]
    /\ UNCHANGED <<drv, input, objects, stack, nodes, bpc, query, rc, smp, px>>

NextConfig ==
    \/ ConfigDefault
    \/ set_image_width
    \/ set_aspect_ratio
    \/ set_samples_per_pixel
    \/ set_background

SpecConfig == InitIdle /\ [][NextConfig]_vars

(* h is image_width / aspect_ratio with the fraction dropped *)
IsTruncatedQuotient(h, image_width, aspect_ratio) ==
    /\ h * aspect_ratio[1] <= image_width * aspect_ratio[2]
    /\ image_width * aspect_ratio[2] < (h + 1) * aspect_ratio[1]

(* C20: in the default Config and after every sequence of setters,
   image_height is image_width / aspect_ratio truncated; the setters other
   than set_image_width and set_aspect_ratio leave width, height and aspect
   ratio as they were. *)
C20_HeightDerived ==
    /\ [](conf.pc = "built" =>
            IsTruncatedQuotient(conf.image_height, conf.image_width,
                                conf.aspect_ratio))
    /\ [][(conf.pc = "built" /\ conf'.op \in {"set_samples_per_pixel", "set_background"}) =>
             /\ conf'.image_width = conf.image_width
             /\ conf'.image_height = conf.image_height
             /\ conf'.aspect_ratio = conf.aspect_ratio]_vars

C20_Witness ==
    /\ conf.pc = "built"
    /\ conf.op = "set_aspect_ratio"
    /\ conf.aspect_ratio = <<3, 2>>
    /\ conf.image_width = 1
    /\ conf.image_height = 0
    /\ conf.samples_per_pixel = 400

---------------------------------------------------------------------------
(* the claims about what the build keeps *)

(* C21: the hierarchy from_list returns holds every object of the input
   list as a leaf, and every leaf is an object of the input list. *)
C21_NoObjectLost ==
    bpc = "done" =>
        Leaves(nodes, 1) = {input[i] : i \in 1..Len(input)}

---------------------------------------------------------------------------
(* bvh.rs: BvhNode::hit of the root, statement by statement *)

(* the input lists of up to three objects *)
SmallLists == {l \in InputLists : Len(l) <= 3}

InitSmall == Init /\ input \in SmallLists

(* a point no bounding box of the scene is near *)
FarPoint == <<-5 * Unit, -5 * Unit, -5 * Unit>>

(* the rays aimed at where an object of the list is at time 0 or 1, and
   rays that pass far from every object *)
NodeRays ==
    UNION {RaysToward(ObjCenter(input[i], tm), tm) : i \in 1..Len(input), tm \in {0, 1}}
    \cup RaysToward(FarPoint, 0)

Test(child, t_min, t_max) == [child |-> child, t_min |-> t_min, t_max |-> t_max]

(* root.hit(r, t_min, t_max, rec) is called *)
NodeHitCall ==
    /\ bpc = "done"
    /\ query = NoQuery
    /\ \E r \in NodeRays, iv \in TIntervals, rec0 \in PriorRecs :
          query' = [kind |-> "node_hit", pc |-> "box", ray |-> r,
                    t_min |-> iv[1], t_max |-> iv[2], rec0 |-> rec0, rec |-> rec0,
                    tests |-> <<>>, hit_left |-> FALSE, result |-> FALSE]
    /\ UNCHANGED <<drv, conf, input, objects, stack, nodes, bpc, rc, smp, px>>

(* if !self.ibox.hit(r, t_min, t_max) { return false; } *)
NodeHitBoxMiss ==
    /\ query.kind = "node_hit" /\ query.pc = "box"
    /\ ~AabbHit(nodes[1].ibox, query.ray, query.t_min, query.t_max)
    /\ query' = [query EXCEPT !.pc = "returned", !.result = FALSE]
    /\ UNCHANGED <<drv, conf, input, objects, stack, nodes, bpc, rc, smp, px>>

(* the child a call tests next, and the upper bound it is tested with *)
NextChild(q) == IF q.pc = "left" THEN nodes[1].left ELSE nodes[1].right

Using(q) ==
    IF q.pc = "left" THEN q.t_max ELSE RightBound(q.hit_left, q.rec, q.t_max)

(* the call after the test of a child with upper bound using and result h *)
AfterTest(q, using, h) ==
    IF q.pc = "left"
    THEN [q EXCEPT !.pc = "right", !.hit_left = h.hit, !.rec = h.rec,
                   !.tests = Append(@, Test("left", q.t_min, using))]
    ELSE [q EXCEPT !.pc = "returned", !.rec = h.rec,
                   !.result = q.hit_left \/ h.hit,
                   !.tests = Append(@, Test("right", q.t_min, using))]

(* the box is hit: the left child is tested next *)
NodeHitBoxHit ==
    /\ query.kind = "node_hit" /\ query.pc = "box"
    /\ AabbHit(nodes[1].ibox, query.ray, query.t_min, query.t_max)
    /\ query' = [query EXCEPT !.pc = "left"]
    /\ UNCHANGED <<drv, conf, input, objects, stack, nodes, bpc, rc, smp, px>>

(* let hit_left = self.left.hit(r, t_min, t_max, rec);
   let using = if hit_left { rec.t } else { t_max };
   let hit_right = self.right.hit(r, t_min, using, rec);
   return hit_left || hit_right; *)
NodeHitChild ==
    /\ query.kind = "node_hit" /\ query.pc \in {"left", "right"}
    /\ \E using \in {Using(query)} :
       \E h \in {RefHit(nodes, NextChild(query), query.ray, query.t_min,
                         using, query.rec)} :
          query' = AfterTest(query, using, h)
    /\ UNCHANGED <<drv, conf, input, objects, stack, nodes, bpc, rc, smp, px>>

NextNodeHit ==
    \/ FromHittableList
    \/ ChooseComparator
    \/ BuildAssertFail
    \/ BuildLeaf
    \/ BuildPair
    \/ BuildSplit
    \/ RecurseRight
    \/ BuildInner
    \/ NodeHitCall
    \/ NodeHitBoxMiss
    \/ NodeHitBoxHit
    \/ NodeHitChild

SpecNodeHit == InitSmall /\ [][NextNodeHit]_vars

(* the t of the hits among two results *)
HitTs(l, r) ==
    (IF l.hit THEN {l.rec.t} ELSE {}) \cup (IF r.hit THEN {r.rec.t} ELSE {})

(* C22: a ray that misses the node's box fails with no child tested; else
   the left child is tested over [t_min, t_max], then the right child over
   [t_min, t of the left hit] (over [t_min, t_max] when the left missed),
   and the node reports a hit iff a child hits, with the smaller t. *)
C22_NodeHitOrder ==
    (query.kind = "node_hit" /\ query.pc = "returned") =>
        LET box == AabbHit(nodes[1].ibox, query.ray, query.t_min, query.t_max)
            l == RefHit(nodes, nodes[1].left, query.ray, query.t_min,
                        query.t_max, DefaultRec)
            r == RefHit(nodes, nodes[1].right, query.ray, query.t_min,
                        query.t_max, DefaultRec)
        IN  IF ~box
            THEN query.tests = <<>> /\ ~query.result
            ELSE /\ query.tests =
                      <<Test("left", query.t_min, query.t_max),
                        Test("right", query.t_min,
                             IF l.hit THEN l.rec.t ELSE query.t_max)>>
                 /\ query.result = (l.hit \/ r.hit)
                 /\ query.result =>
                       \A t \in HitTs(l, r) : query.rec.t <= t
                 /\ query.result => query.rec.t \in HitTs(l, r)

(* both children are hit, the right one nearer than the left one *)
C22_Witness ==
    /\ query.kind = "node_hit" /\ query.pc = "returned"
    /\ query.result
    /\ Len(query.tests) = 2
    /\ query.tests[2].t_max < query.t_max
    /\ query.rec.t < query.tests[2].t_max

(* the minimum along axis of the box the comparator reads *)
CompareMin(id, axis) == ObjBoundingBox(Catalogue[id], 0, 0).min[axis]

(* C23: a call over one object returns a node whose two children are that
   object; a call over two objects returns a node whose children are those
   two, the left one with a minimum along the chosen axis that is not
   greater than the right one's. *)
C23_BaseCases ==
    [][(bpc = "building" /\ Top.phase = "enter" /\ bpc' # "panic")
        => /\ (Top.end - Top.start = 1) =>
                 /\ nodes'[Top.node].left = LeafRef(objects[Top.start + 1])
                 /\ nodes'[Top.node].right = LeafRef(objects[Top.start + 1])
           /\ (Top.end - Top.start = 2) =>
                 /\ nodes'[Top.node].left.leaf /\ nodes'[Top.node].right.leaf
                 /\ {nodes'[Top.node].left.id, nodes'[Top.node].right.id}
                       = {objects[Top.start + 1], objects[Top.start + 2]}
                 /\ CompareMin(nodes'[Top.node].left.id, Top.axis)
                       <= CompareMin(nodes'[Top.node].right.id, Top.axis)]_vars

(* the pair <<2, 1>> built with an axis that puts sphere 1 first *)
C23_Witness ==
    /\ bpc = "done"
    /\ input = <<2, 1>>
    /\ nodes[1].left = LeafRef(1)
    /\ nodes[1].right = LeafRef(2)

---------------------------------------------------------------------------
(* hittable.rs: HittableList::hit *)

(* spheres 1 and 5 lie on one line along x, sphere 1 and the moving sphere
   at time 1 on one line along z; sphere 2 is on neither *)
ListMembers == {1, 2, 5, MovingId}

(* the lists of up to three of them, in every order *)
HitLists == UNION {Perms(S) : S \in {T \in SUBSET ListMembers : Cardinality(T) <= 3}}

ListRays ==
    UNION {RaysToward(ObjCenter(id, tm), tm) : id \in {1, 5, MovingId}, tm \in {0, 1}}

HittableListHit ==
    /\ bpc = "start" /\ query = NoQuery
    /\ \E list \in HitLists, r \in ListRays, iv \in TIntervals :
          query' = [kind |-> "list_hit", objs |-> list, ray |-> r,
                    t_min |-> iv[1], t_max |-> iv[2],
                    res |-> ListHit(list, r, iv[1], iv[2])]
    /\ UNCHANGED <<drv, conf, input, objects, stack, nodes, bpc, rc, smp, px>>

NextList ==
    \/ HittableListHit

SpecList == InitIdle /\ [][NextList]_vars

(* the hits of the objects of a list, each tested alone over [t_min, t_max] *)
OwnHits(list, r, t_min, t_max) ==
    {h \in {ObjHit(list[i], Catalogue[list[i]], r, t_min, t_max, DefaultRec, 0) :
                i \in 1..Len(list)} : h.hit}

(* C24: HittableList::hit reports a hit exactly when an object of the list
   hits within [t_min, t_max], and then a hit of an object with the
   smallest t; in every other order of the list it reports the same t, and
   the same hit when the objects' t are distinct. *)
C24_ListClosestHit ==
    query.kind = "list_hit" =>
        LET own == OwnHits(query.objs, query.ray, query.t_min, query.t_max)
            n == Len(query.objs)
        IN  /\ query.res.hit = (own # {})
            /\ query.res.hit =>
                  /\ query.res \in own
                  /\ \A h \in own : query.res.rec.t <= h.rec.t
            /\ \A p \in Perms(1..n) :
                  LET other == ListHit([i \in 1..n |-> query.objs[p[i]]],
                                       query.ray, query.t_min, query.t_max)
                  IN  /\ other.hit = query.res.hit
                      /\ other.hit => other.rec.t = query.res.rec.t
                      /\ (\A g \in own, h \in own : g # h => g.rec.t # h.rec.t)
                            => other = query.res

(* the nearest of two hits is found although it is tested first *)
C24_Witness ==
    /\ query.kind = "list_hit"
    /\ query.objs = <<1, 2, 5>>
    /\ query.res.hit /\ query.res.obj = 1
    /\ Cardinality(OwnHits(query.objs, query.ray, query.t_min, query.t_max)) = 2

---------------------------------------------------------------------------
(* medium.rs: Constant::hit *)

MediumIntervals ==
    {<<1, Inf>>, <<-Inf, Inf>>, <<2 * Unit, 3 * Unit>>, <<0, 1500>>,
     <<-5 * Unit, -Unit>>}

(* neg_inv_density * ln(rand_range(0.0..1.0)): 0 and up, Inf for a draw of 0 *)
FreePaths == {0, 500, Unit, 3 * Unit, Inf}

(* Constant::hit of the medium that fills the target sphere *)
ConstantHitCall ==
    /\ bpc = "start" /\ query = NoQuery
    /\ \E r \in SphereRays, iv \in MediumIntervals, hit_distance \in FreePaths,
          rec0 \in PriorRecs :
          query' = [kind |-> "medium", ray |-> r, t_min |-> iv[1], t_max |-> iv[2],
                    hit_distance |-> hit_distance, rec0 |-> rec0,
                    res |-> ConstantHit(MediumId, Catalogue[MediumId], r,
                                        iv[1], iv[2], rec0, hit_distance)]
    /\ UNCHANGED <<drv, conf, input, objects, stack, nodes, bpc, rc, smp, px>>

NextMedium ==
    \/ ConstantHitCall

SpecMedium == InitIdle /\ [][NextMedium]_vars

(* C25: the medium reports a hit only if the ray meets the boundary at two
   parameters t1 < t2 and the free path is no longer than the way inside;
   then max(t1, t_min, 0) <= t <= min(t2, t_max), so t is in
   [t_min, t_max], the point is ray.at(t) and the material is the
   medium's phase function. *)
C25_MediumHitInside ==
    (query.kind = "medium" /\ query.res.hit) =>
        LET roots == RootsOf(query.ray)
            t == query.res.rec.t
        IN  /\ Cardinality(roots) = 2
            /\ LET t1 == Max2(Max2(SetMin(roots), query.t_min), 0)
                   t2 == Min2(SetMax(roots), query.t_max)
               IN  /\ t1 <= t /\ t <= t2
                   /\ query.hit_distance <= (t2 - t1) * DirLength(query.ray)
            /\ query.t_min <= t /\ t <= query.t_max
            /\ query.res.rec.p = RayAt(query.ray, t)
            /\ query.res.rec.mat = Catalogue[MediumId].mat

(* a scattering strictly inside the medium, from an origin inside it *)
C25_Witness ==
    /\ query.kind = "medium" /\ query.res.hit
    /\ query.hit_distance = 500
    /\ SetMin(RootsOf(query.ray)) < 0
    /\ query.res.rec.t = 250

---------------------------------------------------------------------------
(* perlin.rs: the permutation tables and the indices of noise *)

(* the tables of the model have 2^PermBits entries; the code's have 2^8 *)
PermBits == 2

POINT_COUNT == 2 ^ PermBits

(* p.swap(i, target), on positions counted from 0 *)
Swap(p, i, target) ==
    [p EXCEPT ![i + 1] = p[target + 1], ![target + 1] = p[i + 1]]

(* generate_perm: (0..POINT_COUNT).collect(), then permutate's loop starts *)
GeneratePerm ==
    /\ bpc = "start" /\ query = NoQuery
    /\ query' = [kind |-> "permutate", pc |-> "loop",
                 p |-> [k \in 1..POINT_COUNT |-> k - 1], i |-> POINT_COUNT - 1]
    /\ UNCHANGED <<drv, conf, input, objects, stack, nodes, bpc, rc, smp, px>>

(* one turn of for i in (1..p.len()).rev(): target = rand_range(0..=i) *)
PermutateSwap ==
    /\ query.kind = "permutate" /\ query.pc = "loop"
    /\ query.i >= 1
    /\ \E target \in 0..query.i :
          query' = [query EXCEPT !.p = Swap(@, query.i, target), !.i = @ - 1]
    /\ UNCHANGED <<drv, conf, input, objects, stack, nodes, bpc, rc, smp, px>>

PermutateReturn ==
    /\ query.kind = "permutate" /\ query.pc = "loop"
    /\ query.i = 0
    /\ query' = [query EXCEPT !.pc = "done"]
    /\ UNCHANGED <<drv, conf, input, objects, stack, nodes, bpc, rc, smp, px>>

RECURSIVE Permutate(_, _, _)
(* permutate with the targets a rule gives: "first" 0, "half" i / 2, "self" i *)
Permutate(p, i, rule) ==
    IF i = 0 THEN p
    ELSE Permutate(Swap(p, i, CASE rule = "first" -> 0
                                [] rule = "half" -> i \div 2
                                [] OTHER -> i),
                   i - 1, rule)

TargetRules == {"first", "half", "self"}

(* a table generate_perm can return *)
PermOf(rule) == Permutate([k \in 1..POINT_COUNT |-> k - 1], POINT_COUNT - 1, rule)

RECURSIVE BitXor(_, _)
(* a ^ b of usize *)
BitXor(a, b) ==
    IF a = 0 THEN b
    ELSE IF b = 0 THEN a
    ELSE (((a % 2) + (b % 2)) % 2) + 2 * BitXor(a \div 2, b \div 2)

(* v.floor() as isize, of a coordinate in thousandths *)
Floor(v) == v \div Unit

(* the remainder of a division that keeps the sign of i *)
PermIndex_Rem(i, di) ==
    IF i + di >= 0 THEN (i + di) % POINT_COUNT
    ELSE -((-(i + di)) % POINT_COUNT)

(* ((i + di as isize) & 255) as usize: the low bits of the two's complement *)
PermIndex(i, di) == (i + di) % POINT_COUNT

(* the coordinates of the points noise is asked for *)
NoiseCoords == {-2500, -1, 0, 250, 3 * Unit + 750}

(* the indices noise computes for one corner: into perm_x, perm_y, perm_z
   and, when those are in range, into ranvec *)
CornerIndices(perm_x, perm_y, perm_z, p, di, dj, dk) ==
    LET ix == PermIndex(Floor(p[1]), di)
        iy == PermIndex(Floor(p[2]), dj)
        iz == PermIndex(Floor(p[3]), dk)
        ok == \A t \in {ix, iy, iz} : t \in 0..(POINT_COUNT - 1)
    IN  [perm |-> {ix, iy, iz},
         ranvec |-> IF ok
                    THEN {BitXor(BitXor(perm_x[ix + 1], perm_y[iy + 1]), perm_z[iz + 1])}
                    ELSE {}]

(* Perlin::noise(p) with three generated tables *)
Noise ==
    /\ bpc = "start" /\ query = NoQuery
    /\ \E rx \in TargetRules, ry \in TargetRules, rz \in TargetRules,
          x \in NoiseCoords, y \in NoiseCoords, z \in NoiseCoords :
          LET corners == {CornerIndices(PermOf(rx), PermOf(ry), PermOf(rz),
                                        <<x, y, z>>, di, dj, dk) :
                              di \in 0..1, dj \in 0..1, dk \in 0..1}
          IN  query' = [kind |-> "noise", point |-> <<x, y, z>>,
                        perm_x |-> PermOf(rx), perm_y |-> PermOf(ry),
                        perm_z |-> PermOf(rz),
                        perm |-> UNION {c.perm : c \in corners},
                        ranvec |-> UNION {c.ranvec : c \in corners}]
    /\ UNCHANGED <<drv, conf, input, objects, stack, nodes, bpc, rc, smp, px>>

NextPerlin ==
    \/ GeneratePerm
    \/ PermutateSwap
    \/ PermutateReturn
    \/ Noise

SpecPerlin == InitIdle /\ [][NextPerlin]_vars

IsPermutation(p) ==
    /\ Len(p) = POINT_COUNT
    /\ \A v \in 0..(POINT_COUNT - 1) : Cardinality({k \in 1..Len(p) : p[k] = v}) = 1

(* C26: the table permutate works on is a permutation of 0..POINT_COUNT-1
   after every swap, and every index noise computes into the permutation
   tables and into ranvec is in 0..POINT_COUNT-1, for negative coordinates
   too. *)
C26_PerlinTables ==
    /\ query.kind = "permutate" => IsPermutation(query.p)
    /\ query.kind = "noise" =>
          /\ IsPermutation(query.perm_x)
          /\ IsPermutation(query.perm_y)
          /\ IsPermutation(query.perm_z)
          /\ query.perm \subseteq 0..(POINT_COUNT - 1)
          /\ query.ranvec # {}
          /\ query.ranvec \subseteq 0..(POINT_COUNT - 1)

(* noise at a point with negative coordinates, on shuffled tables *)
C26_Witness ==
    /\ query.kind = "noise"
    /\ query.point = <<-2500, -1, 250>>
    /\ query.perm_x # query.perm_y
    /\ query.perm_x[1] # 0

---------------------------------------------------------------------------
(* texture.rs: ImageTexture::value; loader.rs: ImageHolder::index *)

(* texture coordinates in thousandths: below 0, in [0, 1], above 1 *)
TexCoords == {-Inf, -500, 0, 1, 333, 500, Unit - 1, Unit, 1500, Inf}

(* the column or row without the clamp to base - 1 *)
TexCalc_NoClamp(index, base) ==
    LET res == FMul(index, base)
    IN  [panic |-> ~FLe(0, res), at |-> res \div Unit]

(* let calc = |index, base| ..: the assertion, `as usize`, the clamp *)
TexCalc(index, base) ==
    LET res == FMul(index, base)
    IN  [panic |-> ~FLe(0, res),
         at |-> IF res \div Unit >= base THEN base - 1 ELSE res \div Unit]

(* img[j][i]: the row assertion of ImageHolder::index, then the slice index *)
ImageIndex(width, height, j, i) ==
    [panic |-> ~(j < height), out_of_row |-> ~(i < width)]

(* ImageTexture::value(u, v, p) on a loaded image of width x height *)
ImageTextureValue ==
    /\ bpc = "start" /\ query = NoQuery
    /\ \E width \in 1..MaxWidth, height \in 1..MaxHeight,
          u \in TexCoords, v \in TexCoords :
          \E cu \in {clamp(u, 0, Unit)}, cv \in {FAdd(Unit, -clamp(v, 0, Unit))} :
          \E i \in {TexCalc(cu, width)}, j \in {TexCalc(cv, height)} :
             query' = [kind |-> "image_value", width |-> width, height |-> height,
                       u |-> u, v |-> v, cu |-> cu, cv |-> cv, i |-> i.at, j |-> j.at,
                       below_zero |-> i.panic \/ j.panic,
                       index |-> ImageIndex(width, height, j.at, i.at)]
    /\ UNCHANGED <<drv, conf, input, objects, stack, nodes, bpc, rc, smp, px>>

NextTexture ==
    \/ ImageTextureValue

SpecTexture == InitIdle /\ [][NextTexture]_vars

(* C27: for every (u, v), below 0 and above 1 included, u is clamped to
   [0, 1], v is clamped and flipped, the column and row computed satisfy
   0 <= i < width and 0 <= j < height, and neither the assertion on the
   sign nor the row assertion of ImageHolder fires. *)
C27_TextureIndexInRange ==
    query.kind = "image_value" =>
        /\ 0 <= query.cu /\ query.cu <= Unit
        /\ 0 <= query.cv /\ query.cv <= Unit
        /\ (query.v <= 0 => query.cv = Unit) /\ (query.v >= Unit => query.cv = 0)
        /\ 0 <= query.i /\ query.i < query.width
        /\ 0 <= query.j /\ query.j < query.height
        /\ ~query.below_zero
        /\ ~query.index.panic
        /\ ~query.index.out_of_row

(* u above 1 and v below 0 give the last column of the last row *)
C27_Witness ==
    /\ query.kind = "image_value"
    /\ query.u = 1500 /\ query.v = -500
    /\ query.width = 3 /\ query.height = 2
    /\ query.i = 2 /\ query.j = 1

---------------------------------------------------------------------------
(* bvh.rs: box_compare on boxes with any f64 minimum *)

(* minima on the compared axis: finite, infinite and NaN *)
CompareMins == {-Inf, -2 * Unit, -Unit, 0, Unit, 2 * Unit, Inf, NaN}

IsFinite(a) == ~IsNaN(a) /\ ~IsInf(a)

(* the box of an object whose minimum on the axis is m *)
BoxWithMin(m, axis) ==
    Aabb([k \in 1..3 |-> IF k = axis THEN m ELSE 0],
         [k \in 1..3 |-> IF k = axis THEN FAdd(m, 2 * Unit) ELSE 2 * Unit])

(* box_compare(a, b, axis) once check_cond has found both boxes *)
BoxCompareCall ==
    /\ bpc = "start" /\ query = NoQuery
    /\ \E left \in CompareMins, right \in CompareMins, axis \in 1..3 :
          query' = [kind |-> "box_compare", left |-> left, right |-> right,
                    axis |-> axis,
                    result |-> MinCompare(BoxWithMin(left, axis),
                                          BoxWithMin(right, axis), axis)]
    /\ UNCHANGED <<drv, conf, input, objects, stack, nodes, bpc, rc, smp, px>>

NextCompare ==
    \/ BoxCompareCall

SpecCompare == InitIdle /\ [][NextCompare]_vars

(* C28: the comparator aborts whenever one of the two minima it compares
   is NaN or infinite, and returns an ordering only for two finite
   values. *)
C28_ComparatorAborts ==
    query.kind = "box_compare" =>
        (query.result = "Panic" <=> ~(IsFinite(query.left) /\ IsFinite(query.right)))

(* what the comparator does: it aborts exactly when a minimum is NaN *)
AbortsOnNaNOnly ==
    query.kind = "box_compare" =>
        (query.result = "Panic" <=> (IsNaN(query.left) \/ IsNaN(query.right)))

---------------------------------------------------------------------------
(* hittable.rs: RotateY::hit, and front_face through the two wrappers *)

(* <<sin_theta, cos_theta>> of the quarter turns, as plain factors *)
QuarterTurns == {<<0, 1>>, <<1, 0>>, <<0, -1>>, <<-1, 0>>}

(* the first calc closure: into the child's frame *)
RotateIn(data, sin_theta, cos_theta) ==
    <<cos_theta * data[1] - sin_theta * data[3], data[2],
      sin_theta * data[1] + cos_theta * data[3]>>

(* the second calc closure: back out of the child's frame *)
RotateOut(data, sin_theta, cos_theta) ==
    <<cos_theta * data[1] + sin_theta * data[3], data[2],
      (-sin_theta) * data[1] + cos_theta * data[3]>>

(* let rotated = Ray::with_time(org, dir, r.time()); *)
RotatedRay(r, sin_theta, cos_theta) ==
    Ray(RotateIn(r.orig, sin_theta, cos_theta), RotateIn(r.dir, sin_theta, cos_theta), r.tm)

(* rec.p = p; rec.set_face_normal(&rotated, &normal); *)
RotateYRecord(id, child, sin_theta, cos_theta, rotated) ==
    IF ~child.hit THEN Miss(DefaultRec)
    ELSE Found(set_face_normal([child.rec EXCEPT !.p = RotateOut(@, sin_theta, cos_theta)],
                               rotated,
                               RotateOut(child.rec.normal, sin_theta, cos_theta)), id)

(* the rays that reach the child once rotated into its frame *)
RotateYRays(sin_theta, cos_theta) ==
    {Ray(RotateOut(r.orig, sin_theta, cos_theta),
         RotateOut(r.dir, sin_theta, cos_theta), r.tm) : r \in SphereRays}

(* RotateY::hit: the child's record is kept beside the wrapper's *)
RotateYHitCall ==
    /\ bpc = "start" /\ query = NoQuery
    /\ \E angle \in QuarterTurns, iv \in TranslateIntervals :
       \E r \in RotateYRays(angle[1], angle[2]) :
       \E rotated \in {RotatedRay(r, angle[1], angle[2])} :
       \E child \in {ObjHit(2, TargetSphere, rotated, iv[1], iv[2], DefaultRec, 0)} :
          query' = [kind |-> "rotate_hit", sin_theta |-> angle[1], cos_theta |-> angle[2],
                    ray |-> r, t_min |-> iv[1], t_max |-> iv[2],
                    child |-> child,
                    res |-> RotateYRecord(2, child, angle[1], angle[2], rotated)]
    /\ UNCHANGED <<drv, conf, input, objects, stack, nodes, bpc, rc, smp, px>>

NextWrappers ==
    \/ TranslateCall
    \/ RotateYHitCall

SpecWrappers == InitIdle /\ [][NextWrappers]_vars

(* the child's own record for a call of Translate::hit *)
TranslateChildHit ==
    ObjHit(query.id, Catalogue[query.id],
           Ray(VSub(query.ray.orig, query.offset), query.ray.dir, query.ray.tm),
           query.t_min, query.t_max, DefaultRec, 0)

(* C29: the record returned by Translate::hit and by RotateY::hit has the
   front_face of the child's record: true only when the ray met the child's
   surface from outside, false when the child reported a hit from inside. *)
C29_FrontFacePreserved ==
    /\ (query.kind = "translate" /\ query.res.hit) =>
            query.res.rec.front_face = TranslateChildHit.rec.front_face
    /\ (query.kind = "rotate_hit" /\ query.res.hit) =>
            query.res.rec.front_face = query.child.rec.front_face

---------------------------------------------------------------------------
(* main.rs: the threads of create_image *)

(* a ticker that never looks at the flag *)
WhileLoad_IgnoresFlag(ab) == "tick_run"

(* while ab1.load(Ordering::Acquire) { .. } *)
WhileLoad(ab) == IF ab THEN "tick_run" ELSE "ended"

(* the progress bars and the flag are made, no thread runs yet *)
ProgressSetup ==
    /\ bpc = "start" /\ query = NoQuery
    /\ drv = IdleDrv
    /\ drv' = [pc |-> "spawn_ticker", ticker |-> "unborn", mp_handler |-> "unborn",
               data |-> "unborn", ab |-> TRUE,
               pb_run |-> "running", pb_curr |-> "running",
               run |-> "none", mp |-> "none", res |-> "none"]
    /\ UNCHANGED <<conf, input, objects, stack, nodes, bpc, query, rc, smp, px>>

SpawnTicker ==
    /\ drv.pc = "spawn_ticker"
    /\ drv' = [drv EXCEPT !.ticker = "load", !.pc = "spawn_mp"]
    /\ UNCHANGED <<conf, input, objects, stack, nodes, bpc, query, rc, smp, px>>

SpawnMpHandler ==
    /\ drv.pc = "spawn_mp"
    /\ drv' = [drv EXCEPT !.mp_handler = "join", !.pc = "spawn_data"]
    /\ UNCHANGED <<conf, input, objects, stack, nodes, bpc, query, rc, smp, px>>

SpawnData ==
    /\ drv.pc = "spawn_data"
    /\ drv' = [drv EXCEPT !.data = "run", !.pc = "join_data"]
    /\ UNCHANGED <<conf, input, objects, stack, nodes, bpc, query, rc, smp, px>>

(* the ticker: the test of the flag *)
TickerLoad ==
    /\ drv.pc # "idle" /\ drv.ticker = "load"
    /\ drv' = [drv EXCEPT !.ticker = WhileLoad(drv.ab)]
    /\ UNCHANGED <<conf, input, objects, stack, nodes, bpc, query, rc, smp, px>>

(* pb_run1.tick(); *)
TickerTickRun ==
    /\ drv.pc # "idle" /\ drv.ticker = "tick_run"
    /\ drv' = [drv EXCEPT !.ticker = "tick_curr"]
    /\ UNCHANGED <<conf, input, objects, stack, nodes, bpc, query, rc, smp, px>>

(* pb_curr1.tick(); *)
TickerTickCurr ==
    /\ drv.pc # "idle" /\ drv.ticker = "tick_curr"
    /\ drv' = [drv EXCEPT !.ticker = "sleep"]
    /\ UNCHANGED <<conf, input, objects, stack, nodes, bpc, query, rc, smp, px>>

(* thread::sleep(s); *)
TickerSleep ==
    /\ drv.pc # "idle" /\ drv.ticker = "sleep"
    /\ drv' = [drv EXCEPT !.ticker = "load"]
    /\ UNCHANGED <<conf, input, objects, stack, nodes, bpc, query, rc, smp, px>>

(* mp.join() returns once every bar is finished *)
MpJoinReturns ==
    /\ drv.pc # "idle" /\ drv.mp_handler = "join"
    /\ drv.pb_run = "finished" /\ drv.pb_curr = "finished"
    /\ drv' = [drv EXCEPT !.mp_handler = "ended",
                          !.mp = IF drv.mp = "none" THEN "Ok" ELSE @]
    /\ UNCHANGED <<conf, input, objects, stack, nodes, bpc, query, rc, smp, px>>

(* mp.join() returns the io::Error of a failed draw *)
MpJoinIoError ==
    /\ drv.pc # "idle" /\ drv.mp_handler = "join"
    /\ drv' = [drv EXCEPT !.mp_handler = "ended", !.mp = "Err"]
    /\ UNCHANGED <<conf, input, objects, stack, nodes, bpc, query, rc, smp, px>>

(* the data thread: run(..) returns its Result *)
DataRunReturns ==
    /\ drv.pc # "idle" /\ drv.data = "run"
    /\ \E res \in {"Ok", "Err"} :
          drv' = [drv EXCEPT !.run = res, !.data = "finish_curr"]
    /\ UNCHANGED <<conf, input, objects, stack, nodes, bpc, query, rc, smp, px>>

(* the data thread: run(..) panics and the thread unwinds *)
DataRunPanics ==
    /\ drv.pc # "idle" /\ drv.data = "run"
    /\ drv' = [drv EXCEPT !.data = "panicked"]
    /\ UNCHANGED <<conf, input, objects, stack, nodes, bpc, query, rc, smp, px>>

(* for pb in [pb_curr, pb_run] { pb.finish(); } *)
DataFinishCurr ==
    /\ drv.pc # "idle" /\ drv.data = "finish_curr"
    /\ drv' = [drv EXCEPT !.pb_curr = "finished", !.data = "finish_run"]
    /\ UNCHANGED <<conf, input, objects, stack, nodes, bpc, query, rc, smp, px>>

DataFinishRun ==
    /\ drv.pc # "idle" /\ drv.data = "finish_run"
    /\ drv' = [drv EXCEPT !.pb_run = "finished", !.data = "store"]
    /\ UNCHANGED <<conf, input, objects, stack, nodes, bpc, query, rc, smp, px>>

(* ab.store(false, Ordering::Release); res *)
DataStore ==
    /\ drv.pc # "idle" /\ drv.data = "store"
    /\ drv' = [drv EXCEPT !.ab = FALSE, !.data = "ended"]
    /\ UNCHANGED <<conf, input, objects, stack, nodes, bpc, query, rc, smp, px>>

(* match data.join() { Ok(res) => res, Err(err) => panic::resume_unwind(err) } *)
JoinData ==
    /\ drv.pc = "join_data"
    /\ drv.data \in {"ended", "panicked"}
    /\ drv' = [drv EXCEPT !.pc = IF drv.data = "ended" THEN "join_ticker" ELSE "panicked"]
    /\ UNCHANGED <<conf, input, objects, stack, nodes, bpc, query, rc, smp, px>>

(* ticker.join() *)
JoinTicker ==
    /\ drv.pc = "join_ticker"
    /\ drv.ticker = "ended"
    /\ drv' = [drv EXCEPT !.pc = "join_mp"]
    /\ UNCHANGED <<conf, input, objects, stack, nodes, bpc, query, rc, smp, px>>

(* match mp_handler.join() { Ok(res) => res?, .. }; let tmp = res?; Ok((conf, tmp)) *)
JoinMpHandler ==
    /\ drv.pc = "join_mp"
    /\ drv.mp_handler = "ended"
    /\ drv' = [drv EXCEPT !.res = IF drv.mp = "Err" THEN "IoErr" ELSE drv.run,
                          !.pc = "returned"]
    /\ UNCHANGED <<conf, input, objects, stack, nodes, bpc, query, rc, smp, px>>

MainStep ==
    \/ SpawnTicker
    \/ SpawnMpHandler
    \/ SpawnData
    \/ JoinData
    \/ JoinTicker
    \/ JoinMpHandler

TickerStep ==
    \/ TickerLoad
    \/ TickerTickRun
    \/ TickerTickCurr
    \/ TickerSleep

DataStep ==
    \/ DataRunReturns
    \/ DataFinishCurr
    \/ DataFinishRun
    \/ DataStore

NextThreads ==
    \/ ProgressSetup
    \/ SpawnTicker
    \/ SpawnMpHandler
    \/ SpawnData
    \/ TickerLoad
    \/ TickerTickRun
    \/ TickerTickCurr
    \/ TickerSleep
    \/ MpJoinReturns
    \/ MpJoinIoError
    \/ DataRunReturns
    \/ DataRunPanics
    \/ DataFinishCurr
    \/ DataFinishRun
    \/ DataStore
    \/ JoinData
    \/ JoinTicker
    \/ JoinMpHandler

(* every spawned thread and the caller are scheduled; a render ends *)
SpecThreads ==
    /\ InitIdle
    /\ [][NextThreads]_vars
    /\ WF_vars(MainStep)
    /\ WF_vars(TickerStep)
    /\ WF_vars(DataStep)
    /\ WF_vars(MpJoinReturns)

ThreadsRunning == drv.pc \notin {"idle"} /\ "ticker" \in DOMAIN drv

(* C30: whenever run returns (Ok or Err) both bars are finished and the
   flag is cleared before the data thread ends, so that the ticker leaves
   its loop, the multi-progress join returns, and create_image returns
   with the result of the render (the io::Error of the multi-progress join,
   if it reported one); when the render panics, the panic is raised again
   in the caller, which does not wait for the ticker. *)
C30_NoDeadlock ==
    /\ [](ThreadsRunning =>
            /\ drv.data = "ended" =>
                  drv.pb_curr = "finished" /\ drv.pb_run = "finished" /\ ~drv.ab
            /\ drv.pc = "returned" =>
                  /\ drv.ticker = "ended" /\ drv.mp_handler = "ended"
                  /\ drv.res = IF drv.mp = "Err" THEN "IoErr" ELSE drv.run
            /\ drv.pc = "panicked" => drv.data = "panicked")
    /\ (ThreadsRunning /\ drv.run # "none") ~> (ThreadsRunning /\ drv.ticker = "ended")
    /\ (ThreadsRunning /\ drv.run # "none") ~> (ThreadsRunning /\ drv.mp_handler = "ended")
    /\ (ThreadsRunning /\ drv.run # "none") ~> (ThreadsRunning /\ drv.pc = "returned")
    /\ (ThreadsRunning /\ drv.data = "panicked") ~> (ThreadsRunning /\ drv.pc = "panicked")

(* a render that returned Ok, seen by the caller after the three joins *)
C30_Witness ==
    /\ ThreadsRunning
    /\ drv.pc = "returned"
    /\ drv.run = "Ok" /\ drv.res = "Ok"
    /\ drv.ticker = "ended" /\ drv.mp_handler = "ended" /\ drv.data = "ended"

===========================================================================
